---- MODULE Spec2Model ----
(***************************************************************************)
(* State-machine model of the tracker-core Competition Hub                 *)
(* (src/src/competition-hub.js) together with the producer-facing          *)
(* WebSocket layer (src/src/websocket-server.js,                           *)
(* src/src/websocket/binary-handler.js, src/src/protocol/*.js).            *)
(*                                                                         *)
(* Hub methods are written as operators that take a context                *)
(*   c = [hub |-> <hub fields>, emitted |-> <EventEmitter events>,         *)
(*        delivered |-> <broadcast messages handed to subscribers>,        *)
(*        ret |-> <return value of the last method>,                       *)
(*        written |-> <files written by the ZIP handlers>]                 *)
(* and return the context after the call, so that a handler that calls     *)
(* several methods in a row is one atomic action.  Node.js runs every      *)
(* 'message' / 'close' callback up to its first await without             *)
(* interruption.  The TextFrame and BinaryFrame actions take one frame per *)
(* event-loop turn (the awaited functions never suspend on I/O when        *)
(* LEARNING_MODE is off, so the callback has finished before the next      *)
(* frame is dispatched).  ReceiveText and Resume split the callback of a   *)
(* text frame at its first await, for frames that are dispatched back to   *)
(* back while the callback of an earlier frame is still suspended.         *)
(***************************************************************************)
EXTENDS Integers, Sequences, FiniteSets, TLC

VARIABLES
    hub,                    \* fields of the CompetitionHub singleton
    conns,                  \* per-connection closure state (status, clientAuthenticated)
    activeConnection,       \* websocket-server.js module variable
    firstConnectionHandled, \* websocket-server.js closure variable of initWebSocketServer
    updateKeyConfigured,    \* whether process.env.OWLCMS_UPDATEKEY is set
    now,                    \* Date.now()
    emitted,                \* EventEmitter events emitted by the last callback
    delivered,              \* broadcast messages handed to subscribers by the last callback
    response,               \* what the last callback sent on the socket
    last,                   \* description of the last callback (frame, outcome)
    frameSeq,               \* toggles at every frame callback
    hubReadyCount,          \* 'hub:ready' emissions since the last full reset (saturating)
    pending,                \* suspended 'message' callbacks, in the order they resume
    steps,                  \* number of callbacks run so far
    files                   \* files written by the ZIP handlers, each with the subdir of its handler

vars == <<hub, conns, activeConnection, firstConnectionHandled, updateKeyConfigured,
          now, emitted, delivered, response, last, frameSeq, hubReadyCount, pending, steps,
          files>>

-----------------------------------------------------------------------------
(* Bounds of the model *)

MaxSteps == 5
MaxTicks == 2
MaxVersion == 4
MaxHubReady == 2
MaxPending == 2
Epoch == 1000
TickMs == 1000

(* Program constants *)

broadcastDebounceMs == 100
DatabaseRequestWindowMs == 1000
DefaultWaitMs == 10000
DuplicateLoadWindowMs == 2000
MINIMUM_PROTOCOL_VERSION == <<64, 0, 0>>

Null == "null"

Fops == {"A", "B"}
Conns == {"c1", "c2"}
Subs == {"ok", "thrower"}

-----------------------------------------------------------------------------
(* Generic helpers *)

Has(f, k) == k \in DOMAIN f

Get(f, k) == IF k \in DOMAIN f THEN f[k] ELSE Null

\* JS object spread { ...old, ...new }
Spread(old, new) ==
    [k \in (DOMAIN old) \cup (DOMAIN new) |-> IF k \in DOMAIN new THEN new[k] ELSE old[k]]

Without(f, k) == [x \in (DOMAIN f) \ {k} |-> f[x]]

Put(f, k, v) == [x \in (DOMAIN f) \cup {k} |-> IF x = k THEN v ELSE f[x]]

EmptyMap == [x \in {} |-> Null]

Truthy(v) == v # Null /\ v # ""

Emit(c, ev) == [c EXCEPT !.emitted = Append(@, ev)]

Return(c, r) == [c EXCEPT !.ret = r]

-----------------------------------------------------------------------------
(* protocol-config.js *)

\* A version string is a triple <<major, minor, patch>> when it matches the
\* semver pattern, <<-1>> when it is malformed, and <<>> when the field is
\* absent; parseVersion returns <<>> for JS null.
parseVersion(version) == IF Len(version) = 3 THEN version ELSE <<>>

compareVersions(v1, v2) ==
    IF v1[1] # v2[1] THEN v1[1] - v2[1]
    ELSE IF v1[2] # v2[2] THEN v1[2] - v2[2]
    ELSE v1[3] - v2[3]

isVersionAcceptable(version) ==
    /\ parseVersion(version) # <<>>
    /\ compareVersions(version, MINIMUM_PROTOCOL_VERSION) >= 0

extractAndValidateVersion(message) ==
    /\ message.version # <<>>
    /\ isVersionAcceptable(message.version)

-----------------------------------------------------------------------------
(* CompetitionHub: constructor *)

\* fops is the set of names of the database's fops array, {} when the
\* database has no such array
NoDatabase == [isNull |-> TRUE, athletes |-> <<>>, databaseChecksum |-> Null, fops |-> {}]

HubInit ==
    [ databaseState           |-> NoDatabase,
      databaseAthleteIndex    |-> {},
      fopUpdates              |-> EmptyMap,
      fopSessionStatus        |-> EmptyMap,
      state                   |-> Null,
      isLoadingDatabase       |-> FALSE,
      lastDatabaseLoad        |-> 0,
      databaseRequested       |-> 0,
      subscribers             |-> {},
      lastDatabaseChecksum    |-> Null,
      hasConfirmedFops        |-> FALSE,
      flagsLoaded             |-> FALSE,
      logosLoaded             |-> FALSE,
      picturesLoaded          |-> FALSE,
      flagsReady              |-> FALSE,
      logosReady              |-> FALSE,
      picturesReady           |-> FALSE,
      translationsReady       |-> FALSE,
      fopVersions             |-> EmptyMap,
      lastBroadcastTime       |-> EmptyMap,
      translations            |-> EmptyMap,
      lastTranslationsChecksum |-> Null,
      databaseWait            |-> [status |-> "none", deadline |-> 0],
      requestResourcesCallback |-> Null ]

Ctx(h) == [hub |-> h, emitted |-> <<>>, delivered |-> <<>>, ret |-> Null, written |-> {}]

-----------------------------------------------------------------------------
(* CompetitionHub: readiness, versions, queries *)

HasDatabaseAthletes(h) ==
    /\ ~h.databaseState.isNull
    /\ Len(h.databaseState.athletes) > 0

isReady(h) == HasDatabaseAthletes(h) /\ h.translationsReady

getMissingPreconditions(h) ==
    (IF ~HasDatabaseAthletes(h) THEN <<"database">> ELSE <<>>)
    \o (IF ~h.translationsReady THEN <<"translations_zip">> ELSE <<>>)

getFopStateVersion(h, fopName) ==
    IF fopName \in DOMAIN h.fopVersions THEN h.fopVersions[fopName] ELSE 0

\* variant: the version of every FOP that has a version is incremented
incrementEveryFopVersion(c, fopName) ==
    [c EXCEPT !.hub.fopVersions =
        [f \in DOMAIN @ \cup {fopName} |-> getFopStateVersion(c.hub, f) + 1]]

incrementFopVersion(c, fopName) ==
    [c EXCEPT !.hub.fopVersions = Put(@, fopName, getFopStateVersion(c.hub, fopName) + 1)]

getFopUpdate(h, fopName) ==
    IF fopName \in DOMAIN h.fopUpdates THEN h.fopUpdates[fopName] ELSE EmptyMap

isSessionDone(h, fopName) ==
    IF fopName \in DOMAIN h.fopSessionStatus THEN h.fopSessionStatus[fopName].isDone ELSE FALSE

-----------------------------------------------------------------------------
(* CompetitionHub.broadcast: debounce per (fop, event type), then deliver *)

\* subscriber callbacks that throw when called
ThrowingSubs == {"thrower"}

DebounceKey(message) ==
    << IF Truthy(Get(message, "fop")) THEN message.fop ELSE "global",
       IF Has(message, "data") /\ Truthy(Get(message.data, "uiEvent")) THEN message.data.uiEvent
       ELSE IF Has(message, "data") /\ Truthy(Get(message.data, "athleteTimerEventType"))
            THEN message.data.athleteTimerEventType
       ELSE message.type >>

\* variant: a subscriber whose callback throws stays registered
broadcastKeepingThrowers(c, message, t) ==
    LET key == DebounceKey(message)
        lastBroadcast == IF key \in DOMAIN c.hub.lastBroadcastTime
                         THEN c.hub.lastBroadcastTime[key] ELSE 0
    IN  IF t - lastBroadcast < broadcastDebounceMs
        THEN c
        ELSE [c EXCEPT !.hub.lastBroadcastTime = Put(@, key, t),
                       !.delivered = Append(@, [type |-> message.type,
                                                 key |-> key,
                                                 to |-> c.hub.subscribers])]

broadcast(c, message, t) ==
    LET key == DebounceKey(message)
        lastBroadcast == IF key \in DOMAIN c.hub.lastBroadcastTime
                         THEN c.hub.lastBroadcastTime[key] ELSE 0
    IN  IF t - lastBroadcast < broadcastDebounceMs
        THEN c
        ELSE [c EXCEPT !.hub.lastBroadcastTime = Put(@, key, t),
                       !.hub.subscribers = @ \ ThrowingSubs,
                       !.delivered = Append(@, [type |-> message.type,
                                                 key |-> key,
                                                 to |-> c.hub.subscribers])]

-----------------------------------------------------------------------------
(* CompetitionHub: per-FOP state folding *)

\* Order entries are records: a raw string key is [kind |-> "key", athleteKey],
\* an object {athleteKey} is [kind |-> "obj", athleteKey], a spacer is
\* [kind |-> "spacer"], a resolved athlete is [kind |-> "athlete", athleteKey,
\* classname] and an unresolvable key is [kind |-> "missing", athleteKey].
NormalizeOrderEntries(entries) ==
    [i \in 1..Len(entries) |->
        IF entries[i].kind = "key" THEN [kind |-> "obj", athleteKey |-> entries[i].athleteKey]
        ELSE entries[i]]

\* variant: order entries naming an athlete the frame's sessionAthletes does
\* not hold are dropped from liftingOrderKeys
sanitizeDroppingForeignKeys(params) ==
    IF Has(params, "liftingOrderKeys") /\ Has(params, "sessionAthletes")
    THEN [params EXCEPT !.liftingOrderKeys =
            SelectSeq(@, LAMBDA e :
                e.kind = "spacer"
                \/ \E i \in 1..Len(params.sessionAthletes) :
                       params.sessionAthletes[i].key = e.athleteKey)]
    ELSE params

sanitizeInboundPayload(params) ==
    LET s1 == IF Has(params, "startOrderKeys") /\ ~Has(params, "startOrderAthletes")
              THEN Put(params, "startOrderAthletes", NormalizeOrderEntries(params.startOrderKeys))
              ELSE params
        s2 == IF Has(s1, "liftingOrderKeys") /\ ~Has(s1, "liftingOrderAthletes")
              THEN Put(s1, "liftingOrderAthletes", NormalizeOrderEntries(s1.liftingOrderKeys))
              ELSE s1
        liftingOrderSource ==
              IF Has(params, "liftingOrderAthletes") THEN params.liftingOrderAthletes
              ELSE IF Has(params, "liftingOrderKeys") THEN params.liftingOrderKeys
              ELSE <<>>
        hasSource == Has(params, "liftingOrderAthletes") \/ Has(params, "liftingOrderKeys")
    IN  IF hasSource
        THEN Put(Put(s2, "liftingOrderAthletes", liftingOrderSource),
                 "liftingOrderAthletesV2",
                 IF Has(s2, "liftingOrderAthletesV2") THEN s2.liftingOrderAthletesV2
                 ELSE liftingOrderSource)
        ELSE s2

\* flat athletes of the session, one per entry that has a key
flattenSessionAthletes(sessionAthletes, currentAthleteKey) ==
    LET keep == SelectSeq(sessionAthletes, LAMBDA e : e.key # Null)
    IN  [i \in 1..Len(keep) |->
            [kind |-> "athlete",
             athleteKey |-> keep[i].key,
             classname |-> IF currentAthleteKey # Null /\ keep[i].key = currentAthleteKey
                           THEN "current" ELSE ""]]

buildOrderKeys(orderEntries) ==
    LET usable == SelectSeq(orderEntries, LAMBDA e : e.kind \in {"key", "obj", "spacer", "athlete", "missing"})
    IN  [i \in 1..Len(usable) |->
            IF usable[i].kind = "spacer" THEN [kind |-> "spacer"]
            ELSE [kind |-> "obj", athleteKey |-> usable[i].athleteKey]]

resolveOrderToAthletes(order, flat) ==
    [i \in 1..Len(order) |->
        IF order[i].kind = "spacer" THEN [kind |-> "spacer"]
        ELSE LET hits == SelectSeq(flat, LAMBDA a : a.athleteKey = order[i].athleteKey)
             IN  IF Len(hits) = 0
                 THEN [kind |-> "missing", athleteKey |-> order[i].athleteKey]
                 ELSE hits[Len(hits)]]

rebuildDerivedState(c, fopName) ==
    IF fopName \notin DOMAIN c.hub.fopUpdates THEN c
    ELSE
    LET update == c.hub.fopUpdates[fopName]
        currentAthleteKey == Get(update, "currentAthleteKey")
        flat == IF Has(update, "sessionAthletes")
                THEN flattenSessionAthletes(update.sessionAthletes, currentAthleteKey)
                ELSE <<>>
        startOrderKeys == IF Has(update, "startOrderKeys") THEN update.startOrderKeys
                          ELSE IF Has(update, "startOrderAthletes") THEN update.startOrderAthletes
                          ELSE <<>>
        liftingOrderKeys == IF Has(update, "liftingOrderKeys") THEN update.liftingOrderKeys
                            ELSE IF Has(update, "liftingOrderAthletes") THEN update.liftingOrderAthletes
                            ELSE <<>>
        startOrder == buildOrderKeys(startOrderKeys)
        liftingOrder == buildOrderKeys(liftingOrderKeys)
        derived == [ sessionAthletesFlat  |-> flat,
                     startOrder           |-> startOrder,
                     liftingOrder         |-> liftingOrder,
                     startOrderAthletes   |-> resolveOrderToAthletes(startOrder, flat),
                     liftingOrderAthletes |-> resolveOrderToAthletes(liftingOrder, flat) ]
    IN  [c EXCEPT !.hub.fopUpdates[fopName] = Spread(update, derived)]

\* the names getAvailableFOPs returns, as a set
getAvailableFOPs(h) ==
    IF ~h.databaseState.isNull /\ h.databaseState.fops # {}
    THEN h.databaseState.fops
    ELSE IF DOMAIN h.fopUpdates # {} THEN DOMAIN h.fopUpdates
    ELSE {"A"}

\* the key of the athlete getCurrentAthlete resolves, Null when it returns null
getCurrentAthlete(h, fopName) ==
    LET update == getFopUpdate(h, fopName)
    IN  IF fopName \notin DOMAIN h.fopUpdates THEN Null
        ELSE IF ~Truthy(Get(update, "currentAthleteKey")) THEN Null
        ELSE IF /\ Has(update, "sessionAthletes")
                /\ \E i \in 1..Len(update.sessionAthletes) :
                        update.sessionAthletes[i].key = update.currentAthleteKey
        THEN update.currentAthleteKey
        ELSE Null

ensureDatabaseContainers(c) ==
    IF c.hub.databaseState.isNull
    THEN [c EXCEPT !.hub.databaseState =
                [isNull |-> FALSE, athletes |-> <<>>, databaseChecksum |-> Null, fops |-> {}]]
    ELSE c

RECURSIVE MergeAthletes(_, _)
MergeAthletes(c, sessionAthletes) ==
    IF sessionAthletes = <<>> THEN c
    ELSE LET a == Head(sessionAthletes)
             c1 == IF a.key = Null \/ a.key \in c.hub.databaseAthleteIndex
                   THEN c
                   ELSE [c EXCEPT !.hub.databaseState.athletes = Append(@, [key |-> a.key]),
                                  !.hub.databaseAthleteIndex = @ \cup {a.key}]
         IN  MergeAthletes(c1, Tail(sessionAthletes))

mergeSessionAthletesIntoDatabase(c, fopName) ==
    LET update == getFopUpdate(c.hub, fopName)
    IN  IF ~Has(update, "sessionAthletes") \/ Len(update.sessionAthletes) = 0
        THEN c
        ELSE MergeAthletes(ensureDatabaseContainers(c), update.sessionAthletes)

updateSessionStatus(c, fopName, params, t) ==
    LET uiEvent == Get(params, "uiEvent")
        sessionName == IF Truthy(Get(params, "sessionName")) THEN params.sessionName ELSE ""
        breakType == IF Truthy(Get(params, "breakType")) THEN params.breakType ELSE ""
        status == IF fopName \in DOMAIN c.hub.fopSessionStatus
                  THEN c.hub.fopSessionStatus[fopName]
                  ELSE [isDone |-> FALSE, sessionName |-> "", lastActivity |-> t]
        newStatus ==
            IF uiEvent = "GroupDone" \/ breakType = "GROUP_DONE"
            THEN [isDone |-> TRUE, sessionName |-> sessionName, lastActivity |-> t]
            ELSE IF status.isDone /\ (Truthy(uiEvent)
                                       \/ Truthy(Get(params, "athleteTimerEventType"))
                                       \/ Truthy(Get(params, "decisionEventType")))
            THEN [isDone |-> FALSE, sessionName |-> sessionName, lastActivity |-> t]
            ELSE IF ~status.isDone
            THEN [isDone |-> FALSE, sessionName |-> sessionName, lastActivity |-> t]
            ELSE status
    IN  [c EXCEPT !.hub.fopSessionStatus = Put(@, fopName, newStatus)]

Deferred(reason) ==
    [accepted |-> FALSE, reason |-> reason, retry |-> TRUE, needsData |-> FALSE]

Accepted(reason) ==
    [accepted |-> TRUE, reason |-> reason, retry |-> FALSE, needsData |-> FALSE]

Rejected(reason) ==
    [accepted |-> FALSE, reason |-> reason, retry |-> FALSE, needsData |-> FALSE]

NeedsData(reason) ==
    [accepted |-> FALSE, reason |-> reason, retry |-> FALSE, needsData |-> TRUE]

\* variant: every message type stamps lastDataUpdate with the arrival time
nextLastDataUpdateAlwaysNow(isTimerOrDecision, prevDataUpdate, t) == t

\* lastDataUpdate of the merged snapshot: kept by timer and decision messages
nextLastDataUpdate(isTimerOrDecision, prevDataUpdate, t) ==
    IF isTimerOrDecision THEN prevDataUpdate ELSE t

FopNameOf(params) ==
    IF Truthy(Get(params, "fop")) THEN params.fop
    ELSE IF Truthy(Get(params, "fopName")) THEN params.fopName
    ELSE "A"

\* the end of handleOwlcmsMessage: ask for the database when the hub has none
requestDatabaseIfMissing(c, t) ==
    IF ~HasDatabaseAthletes(c.hub)
    THEN Return([c EXCEPT !.hub.databaseRequested = t], NeedsData("missing_database"))
    ELSE Return(c, Accepted("processed"))

\* "Clear stale currentAthleteKey when the update does not provide one"
clearStaleCurrentAthlete(merged, params) ==
    IF ~Truthy(Get(params, "currentAthleteKey")) /\ Has(merged, "currentAthleteKey")
    THEN Without(merged, "currentAthleteKey")
    ELSE merged

handleOwlcmsMessage(c, params, messageType, t) ==
    IF c.hub.isLoadingDatabase
    THEN Return(c, Deferred("database_loading"))
    ELSE IF c.hub.databaseRequested > 0 /\ t - c.hub.databaseRequested < DatabaseRequestWindowMs
    THEN Return(c, Deferred("waiting_for_database"))
    ELSE
    LET fopName == FopNameOf(params)
        normalizedParams == sanitizeInboundPayload(params)
        isTimerOrDecision == messageType \in {"timer", "decision"}
        old == getFopUpdate(c.hub, fopName)
        prevDataUpdate == IF Has(old, "lastDataUpdate") THEN old.lastDataUpdate ELSE t
        merged0 == Spread(Spread(old, normalizedParams),
                          [ lastUpdate     |-> t,
                            lastDataUpdate |-> nextLastDataUpdate(isTimerOrDecision, prevDataUpdate, t),
                            fop            |-> fopName ])
        mergedState == clearStaleCurrentAthlete(merged0, normalizedParams)
        c1 == [c EXCEPT !.hub.hasConfirmedFops = TRUE,
                        !.hub.fopUpdates = Put(@, fopName, mergedState)]
        c2 == incrementFopVersion(c1, fopName)
        c3 == rebuildDerivedState(c2, fopName)
        c4 == mergeSessionAthletesIntoDatabase(c3, fopName)
        c5 == updateSessionStatus(c4, fopName, normalizedParams, t)
        c6 == [c5 EXCEPT !.hub.state = "update"]
        c7 == broadcast(c6, [type |-> "fop_update", fop |-> fopName, data |-> normalizedParams], t)
        c8 == Emit(c7, [name |-> "fop_update", fop |-> fopName])
    IN  requestDatabaseIfMissing(c8, t)

-----------------------------------------------------------------------------
(* Full database ingest: parser-v2.js and handleFullCompetitionData *)

\* A database payload is [hasAthletesArray, athletes, databaseChecksum];
\* the parser returns null when the payload has no athletes array.
extractV2FOPs(platforms) == IF platforms = {} THEN {"A"} ELSE platforms

\* the payloads carry a platforms array only where they have a platforms field
parseV2Database(params) ==
    IF ~params.hasAthletesArray
    THEN NoDatabase
    ELSE [isNull |-> FALSE, athletes |-> params.athletes,
          databaseChecksum |-> params.databaseChecksum,
          fops |-> extractV2FOPs(IF Has(params, "platforms") THEN params.platforms ELSE {})]

reindexDatabaseAthletes(c) ==
    [c EXCEPT !.hub.databaseAthleteIndex =
        { c.hub.databaseState.athletes[i].key : i \in 1..Len(c.hub.databaseState.athletes) }]

\* "Bump all known FOP versions (or default 'A' if none yet)"
bumpKnownFopVersions(c) ==
    LET knownFops == IF DOMAIN c.hub.fopUpdates # {} THEN DOMAIN c.hub.fopUpdates ELSE {"A"}
    IN  [c EXCEPT !.hub.fopVersions =
            [f \in (DOMAIN @) \cup knownFops |->
                IF f \in knownFops THEN getFopStateVersion(c.hub, f) + 1 ELSE @[f]]]

emitHubReady(c, t) ==
    IF isReady(c.hub)
    THEN broadcast(Emit(Emit(c, [name |-> "hub:ready", fop |-> "global"]),
                        [name |-> "hub_ready_broadcast", fop |-> "global"]),
                   [type |-> "hub_ready"], t)
    ELSE c

\* emit('database:ready'): the 'once' listener of a pending waitForDatabase
\* clears its timeout and resolves the promise
emitDatabaseReady(c) ==
    LET c1 == Emit(c, [name |-> "database:ready", fop |-> "global"])
    IN  IF c.hub.databaseWait.status = "pending"
        THEN [c1 EXCEPT !.hub.databaseWait.status = "resolved"]
        ELSE c1

handleFullCompetitionData(c, params, t) ==
    LET incomingChecksum == params.databaseChecksum
    IN
    IF /\ incomingChecksum # Null
       /\ c.hub.lastDatabaseChecksum # Null
       /\ incomingChecksum = c.hub.lastDatabaseChecksum
    THEN Return([c EXCEPT !.hub.databaseRequested = 0, !.hub.lastDatabaseLoad = t],
                Accepted("duplicate_checksum"))
    ELSE IF c.hub.isLoadingDatabase
    THEN Return(c, Rejected("already_loading"))
    ELSE IF /\ incomingChecksum = Null
            /\ c.hub.lastDatabaseLoad > 0
            /\ t - c.hub.lastDatabaseLoad < DuplicateLoadWindowMs
    THEN Return(c, Accepted("duplicate_skipped"))
    ELSE
    LET c1 == [c EXCEPT !.hub.isLoadingDatabase = TRUE]
        fullState == parseV2Database(params)
    IN  IF fullState.isNull
        THEN Return(c1, Rejected("invalid_data_structure"))
        ELSE
        LET c2 == [c1 EXCEPT !.hub.hasConfirmedFops = TRUE,
                             !.hub.databaseState = fullState]
            c3 == reindexDatabaseAthletes(c2)
            c4 == bumpKnownFopVersions(c3)
            c5 == [c4 EXCEPT !.hub.state = "database"]
            c6 == broadcast(c5, [type |-> "competition_initialized"], t)
            c7 == Emit(c6, [name |-> "competition_initialized", fop |-> "global"])
            c8 == [c7 EXCEPT !.hub.isLoadingDatabase = FALSE,
                             !.hub.lastDatabaseLoad = t,
                             !.hub.databaseRequested = 0,
                             !.hub.lastDatabaseChecksum = c7.hub.databaseState.databaseChecksum]
            c9 == emitDatabaseReady(c8)
            c10 == emitHubReady(c9, t)
        IN  Return(c10, Accepted("loaded"))

-----------------------------------------------------------------------------
(* Translations *)

\* A locale is the sequence of its '-' separated parts: <<"fr">>, <<"fr","CA">>.
\* A translation map is a function from keys to strings.

HtmlEntities ==
    [x \in {"&amp;", "&lt;", "&gt;"} |->
        IF x = "&amp;" THEN "&" ELSE IF x = "&lt;" THEN "<" ELSE ">"]

decodeHTMLEntities(str) == IF str \in DOMAIN HtmlEntities THEN HtmlEntities[str] ELSE str

IsRegionalOf(existingLocale, locale) ==
    /\ Len(existingLocale) > Len(locale)
    /\ SubSeq(existingLocale, 1, Len(locale)) = locale

setTranslations(c, locale, translationMap) ==
    LET decodedMap == [k \in DOMAIN translationMap |-> decodeHTMLEntities(translationMap[k])]
        isRegional == Len(locale) > 1
        baseLocale == <<locale[1]>>
        mergedMap == IF isRegional /\ baseLocale \in DOMAIN c.hub.translations
                     THEN Spread(c.hub.translations[baseLocale], decodedMap)
                     ELSE decodedMap
        stored == Put(c.hub.translations, locale, mergedMap)
        remerged == IF isRegional THEN stored
                    ELSE [l \in DOMAIN stored |->
                            IF IsRegionalOf(l, locale)
                            THEN Spread(decodedMap, stored[l])
                            ELSE stored[l]]
    IN  [c EXCEPT !.hub.translations = remerged]

markTranslationsComplete(c, t) ==
    IF DOMAIN c.hub.translations # {}
    THEN emitHubReady([c EXCEPT !.hub.translationsReady = TRUE], t)
    ELSE c

setTranslationsReady(c, ready, t) ==
    IF ready THEN markTranslationsComplete(c, t)
    ELSE [c EXCEPT !.hub.translationsReady = FALSE]

getTranslations(h, locale) ==
    IF locale \in DOMAIN h.translations THEN h.translations[locale]
    ELSE IF Len(locale) > 1 /\ <<locale[1]>> \in DOMAIN h.translations
         THEN h.translations[<<locale[1]>>]
    ELSE IF locale # <<"en">> /\ <<"en">> \in DOMAIN h.translations
         THEN h.translations[<<"en">>]
    ELSE EmptyMap

RECURSIVE SetAllTranslations(_, _)
SetAllTranslations(c, locales) ==
    IF locales = <<>> THEN c
    ELSE SetAllTranslations(setTranslations(c, Head(locales)[1], Head(locales)[2]),
                            Tail(locales))

\* A translations_zip payload is [zipOk, hasEntry, checksum, locales] where
\* locales is the sequence of <<locale, map>> pairs of translations.json.
handleTranslationsZipMessage(c, zip, t) ==
    IF ~zip.zipOk THEN setTranslationsReady(c, FALSE, t)
    ELSE IF ~zip.hasEntry THEN c
    ELSE IF zip.checksum # Null /\ c.hub.lastTranslationsChecksum = zip.checksum THEN c
    ELSE LET c1 == SetAllTranslations(c, zip.locales)
             c2 == IF zip.checksum # Null
                   THEN [c1 EXCEPT !.hub.lastTranslationsChecksum = zip.checksum]
                   ELSE c1
         IN  setTranslationsReady(c2, TRUE, t)

-----------------------------------------------------------------------------
(* Resource ZIPs *)

setFlagsReady(c, ready) == [c EXCEPT !.hub.flagsReady = ready, !.hub.flagsLoaded = ready]

setLogosReady(c, ready) == [c EXCEPT !.hub.logosReady = ready, !.hub.logosLoaded = ready]

setPicturesReady(c, ready) == [c EXCEPT !.hub.picturesReady = ready, !.hub.picturesLoaded = ready]

\* A path is the sequence of its components.  An entry of a ZIP is
\* [isDirectory, entryName] and an entry name is [absolute, parts]: "/a/b" is
\* absolute with parts <<"a", "b">>.

\* path.normalize on the components still to read, given those kept so far
RECURSIVE normalizePath(_, _)
normalizePath(kept, rest) ==
    IF rest = <<>> THEN kept
    ELSE IF Head(rest) = "." THEN normalizePath(kept, Tail(rest))
    ELSE IF Head(rest) = ".." /\ kept # <<>> /\ kept[Len(kept)] # ".."
    THEN normalizePath(SubSeq(kept, 1, Len(kept) - 1), Tail(rest))
    ELSE normalizePath(Append(kept, Head(rest)), Tail(rest))

\* path.join(dir, entryName): the names are concatenated with a separator and
\* normalized, so the leading separator of an absolute entry name is dropped
pathJoin(dir, entryName) == normalizePath(<<>>, dir \o entryName.parts)

\* the directory localFilesDir is the component "local"
resolveLocalDir(subdir) == <<"local", subdir>>

\* zip.getEntries().forEach: every entry that is not a directory is written
extractEntries(c, subdir, entries) ==
    [c EXCEPT !.written = @ \cup
        { [subdir |-> subdir,
           path |-> pathJoin(resolveLocalDir(subdir), entries[i].entryName)] :
          i \in { j \in 1..Len(entries) : ~entries[j].isDirectory } }]

handleFlagsMessage(c, zip) ==
    IF zip.zipOk THEN Emit(setFlagsReady(extractEntries(c, "flags", zip.entries), TRUE), [name |-> "flags_loaded", fop |-> "global"])
    ELSE setFlagsReady(c, FALSE)

handlePicturesMessage(c, zip) ==
    IF zip.zipOk THEN Emit(setPicturesReady(extractEntries(c, "pictures", zip.entries), TRUE), [name |-> "pictures_loaded", fop |-> "global"])
    ELSE setPicturesReady(c, FALSE)

handleLogosMessage(c, zip) ==
    IF zip.zipOk THEN Emit(setLogosReady(extractEntries(c, "logos", zip.entries), TRUE), [name |-> "logos_loaded", fop |-> "global"])
    ELSE setLogosReady(c, FALSE)

-----------------------------------------------------------------------------
(* CompetitionHub.refresh *)

\* the fields refresh() clears; it leaves the FOP versions, the session status,
\* databaseRequested, the loading latch and the debounce times alone
clearCompetitionState(c) ==
    [c EXCEPT !.hub.state = Null,
              !.hub.databaseState = NoDatabase,
              !.hub.fopUpdates = EmptyMap,
              !.hub.databaseAthleteIndex = {},
              !.hub.lastDatabaseChecksum = Null,
              !.hub.lastDatabaseLoad = 0,
              !.hub.flagsLoaded = FALSE,
              !.hub.flagsReady = FALSE,
              !.hub.logosLoaded = FALSE,
              !.hub.logosReady = FALSE,
              !.hub.translations = EmptyMap,
              !.hub.lastTranslationsChecksum = Null,
              !.hub.translationsReady = FALSE]

\* variant: refresh() also forgets the per-FOP version counters
refreshResettingVersions(c, t) ==
    LET c1 == [clearCompetitionState(c) EXCEPT !.hub.fopVersions = EmptyMap]
        c2 == Emit(c1, [name |-> "waiting", fop |-> "global"])
        c3 == [c2 EXCEPT !.hub.hasConfirmedFops = FALSE]
    IN  broadcast(c3, [type |-> "waiting"], t)

refresh(c, t) ==
    LET c1 == clearCompetitionState(c)
        c2 == Emit(c1, [name |-> "waiting", fop |-> "global"])
        c3 == [c2 EXCEPT !.hub.hasConfirmedFops = FALSE]
    IN  broadcast(c3, [type |-> "waiting"], t)

-----------------------------------------------------------------------------
(* websocket-server.js: message handlers *)

Resp(status, reason, missing) == [status |-> status, reason |-> reason, missing |-> missing]

NoResponse == Resp(0, "none", <<>>)

mapHubResultToResponse(c) ==
    IF c.ret.accepted THEN Resp(200, "processed", <<>>)
    ELSE IF c.ret.retry THEN Resp(202, "retry", <<>>)
    ELSE IF c.ret.needsData THEN Resp(428, "needs_data", getMissingPreconditions(c.hub))
    ELSE Resp(500, c.ret.reason, <<>>)

\* what handleUpdateMessage answers once the hub has handled the frame
updateResponse(c) ==
    LET missing == getMissingPreconditions(c.hub)
    IN  IF Len(missing) > 0
        THEN [c |-> c, response |-> Resp(428, "missing_preconditions", missing)]
        ELSE [c |-> c, response |-> mapHubResultToResponse(c)]

\* handleUpdateMessage, handleTimerMessage and handleDecisionMessage share this body
handleUpdateMessage(c, payload, messageType, t) ==
    updateResponse(handleOwlcmsMessage(c, payload, messageType, t))

\* what handleDatabaseMessage answers once the hub has handled the payload
databaseResponse(c, payload) ==
    IF ~(payload.hasAthletesArray /\ Len(payload.athletes) > 0)
    THEN [c |-> c, response |-> Resp(202, "awaiting_binary_database", <<>>)]
    ELSE IF c.ret.accepted
    THEN [c |-> c, response |-> Resp(200, "loaded", <<>>)]
    ELSE [c |-> c, response |-> Resp(500, c.ret.reason, <<>>)]

handleDatabaseMessage(c, payload, t) ==
    databaseResponse(handleFullCompetitionData(c, payload, t), payload)

\* the first-connection reset; returns the context after the reset
flushAndResetOnce(c, handled) ==
    IF handled THEN c
    ELSE [c EXCEPT !.hub.databaseState = NoDatabase,
                   !.hub.lastDatabaseChecksum = Null,
                   !.hub.translations = EmptyMap,
                   !.hub.lastTranslationsChecksum = Null,
                   !.hub.flagsLoaded = FALSE,
                   !.hub.logosLoaded = FALSE,
                   !.hub.picturesLoaded = FALSE]

\* the reply of a routed frame, r = [c, response]
\* variant: the callback closes the connection after answering a routed frame
routedThenClosed(base, r, handled) ==
    [base EXCEPT !.c = r.c, !.response = r.response, !.outcome = "routed",
                 !.handled = handled, !.close = TRUE]

routed(base, r, handled) ==
    [base EXCEPT !.c = r.c, !.response = r.response, !.outcome = "routed", !.handled = handled]

\* the 'message' callback of a text frame after handleDatabaseEnvelope, whose
\* outcome is cb: the catch block if it threw, the switch on the type otherwise
routeTextFrame(base, cb, message, handled, t) ==
    IF ~cb.ret.accepted
    THEN [base EXCEPT !.c = cb, !.response = Resp(0, "exception", <<>>),
                      !.outcome = "exception"]
    ELSE IF message.type = "database"
    THEN routed(base, handleDatabaseMessage(flushAndResetOnce(cb, handled), message.database, t),
                TRUE)
    ELSE routed(base, handleUpdateMessage(cb, message.payload, message.type, t), handled)

\* Result of the 'message' callback for a text frame:
\*   c         context after the callback
\*   response  what ws.send() sent
\*   outcome   which exit of the callback was taken
\*   auth      clientAuthenticated afterwards
\*   close     whether ws.close() was called
\*   handled   firstConnectionHandled afterwards
TextFrameResult(c, message, authenticated, handled, t) ==
    LET base == [c |-> c, response |-> NoResponse, outcome |-> "none",
                 auth |-> authenticated, close |-> FALSE, handled |-> handled]
        incomingKey == message.updateKey
    IN
    IF ~extractAndValidateVersion(message)
    THEN [base EXCEPT !.response = Resp(400, "version", <<>>), !.outcome = "version_rejected"]
    ELSE IF updateKeyConfigured /\ incomingKey # "good"
    THEN [base EXCEPT !.response = Resp(401, "unauthorized", <<>>),
                      !.outcome = "auth_rejected", !.close = TRUE]
    ELSE routeTextFrame([base EXCEPT !.auth = authenticated \/ updateKeyConfigured],
                        IF message.hasBundledDatabase
                        THEN handleFullCompetitionData(c, message.database, t)
                        ELSE Return(c, Accepted("no_bundle")),
                        message, handled, t)

\* The 'message' callback of a text frame up to its first await.  A frame with
\* a bundled database awaits handleDatabaseEnvelope (whose body has run), a
\* database frame awaits flushAndResetOnce (whose body has run); an update,
\* timer or decision frame without bundle awaits nothing before it has called
\* the hub and is not split.
\*   suspended  whether the callback is waiting to be resumed
\*   thrown     whether the awaited promise is rejected
SuspendsBeforeRouting(message) == message.hasBundledDatabase \/ message.type = "database"

TextFramePrefix(c, message, authenticated, handled, t) ==
    LET base == [c |-> c, response |-> NoResponse, outcome |-> "none",
                 auth |-> authenticated, close |-> FALSE, handled |-> handled,
                 suspended |-> FALSE, thrown |-> FALSE]
        incomingKey == message.updateKey
    IN
    IF ~extractAndValidateVersion(message)
    THEN [base EXCEPT !.response = Resp(400, "version", <<>>), !.outcome = "version_rejected"]
    ELSE IF updateKeyConfigured /\ incomingKey # "good"
    THEN [base EXCEPT !.response = Resp(401, "unauthorized", <<>>),
                      !.outcome = "auth_rejected", !.close = TRUE]
    ELSE
    LET auth1 == authenticated \/ updateKeyConfigured
    IN  IF message.hasBundledDatabase
        THEN LET cb == handleFullCompetitionData(c, message.database, t)
             IN  [base EXCEPT !.c = cb, !.outcome = "suspended", !.auth = auth1,
                              !.suspended = TRUE, !.thrown = ~cb.ret.accepted]
        ELSE IF message.type = "database"
        THEN [base EXCEPT !.c = flushAndResetOnce(c, handled), !.outcome = "suspended",
                          !.auth = auth1, !.handled = TRUE, !.suspended = TRUE]
        ELSE [base EXCEPT !.auth = auth1]

\* The rest of the callback, run when the awaited promise has settled: the
\* catch block if it was rejected; otherwise the switch on the message type,
\* which is what the callback does for the same frame without its bundle (the
\* version and authentication checks of the frame have passed).
TextFrameContinuation(c, message, thrown, authenticated, handled, t) ==
    IF thrown
    THEN [c |-> c, response |-> Resp(0, "exception", <<>>), outcome |-> "exception",
          auth |-> authenticated, close |-> FALSE, handled |-> handled]
    ELSE TextFrameResult(c, [message EXCEPT !.hasBundledDatabase = FALSE],
                         authenticated, handled, t)

\* handleDatabaseZipMessage: a database_zip payload is [zipOk, database]
handleDatabaseZipMessage(c, zip, t) ==
    IF ~zip.zipOk THEN c ELSE handleFullCompetitionData(c, zip.database, t)

\* handleBinaryMessage after the header has been read
handleBinaryMessage(c, frame, t) ==
    IF frame.layout = "versioned" /\ ~isVersionAcceptable(frame.version) THEN c
    ELSE IF frame.type \in {"database_zip", "database"} THEN handleDatabaseZipMessage(c, frame.zip, t)
    ELSE IF frame.type \in {"flags_zip", "flags"} THEN handleFlagsMessage(c, frame.zip)
    ELSE IF frame.type \in {"pictures_zip", "pictures"} THEN handlePicturesMessage(c, frame.zip)
    ELSE IF frame.type = "translations_zip" THEN handleTranslationsZipMessage(c, frame.zip, t)
    ELSE IF frame.type = "logos_zip" THEN handleLogosMessage(c, frame.zip)
    ELSE c

\* variant: binary frames are routed without the authentication check
BinaryFrameResultUnauthenticated(c, frame, authenticated, handled, t) ==
    LET isDatabase == frame.type \in {"database_zip", "database"}
        c1 == IF isDatabase THEN flushAndResetOnce(c, handled) ELSE c
    IN  [c |-> handleBinaryMessage(c1, frame, t), response |-> NoResponse,
         outcome |-> IF frame.layout = "versioned" /\ ~isVersionAcceptable(frame.version)
                     THEN "version_rejected" ELSE "routed",
         auth |-> authenticated, close |-> FALSE, handled |-> handled \/ isDatabase]

BinaryFrameResult(c, frame, authenticated, handled, t) ==
    LET base == [c |-> c, response |-> NoResponse, outcome |-> "none",
                 auth |-> authenticated, close |-> FALSE, handled |-> handled]
        isDatabase == frame.type \in {"database_zip", "database"}
    IN
    IF updateKeyConfigured /\ ~authenticated
    THEN [base EXCEPT !.response = Resp(401, "unauthorized", <<>>),
                      !.outcome = "auth_rejected", !.close = TRUE]
    ELSE LET c1 == IF isDatabase THEN flushAndResetOnce(c, handled) ELSE c
         IN  [base EXCEPT !.c = handleBinaryMessage(c1, frame, t),
                          !.outcome = IF frame.layout = "versioned"
                                         /\ ~isVersionAcceptable(frame.version)
                                      THEN "version_rejected" ELSE "routed",
                          !.handled = handled \/ isDatabase]

-----------------------------------------------------------------------------
(* utils/timer-decision-helpers.js, over the fields that decide the mode *)

\* break timer events, lower-cased, that contain 'start' / that contain 'pause'
BreakEventStarts(e) == e \in {"StartTime", "BreakStarted"}

BreakEventPauses(e) == e \in {"Pause", "BreakPaused"}

\* inBreakState of extractTimers
inBreakState(u) ==
    /\ ~BreakEventPauses(Get(u, "breakTimerEventType"))
    /\ Get(u, "athleteTimerEventType") # "StartTime"
    /\ \/ Get(u, "fopState") = "BREAK"
       \/ BreakEventStarts(Get(u, "breakTimerEventType"))
       \/ Get(u, "mode") = "SESSION_DONE"

extractTimers(u) ==
    LET athleteEvent == Get(u, "athleteTimerEventType")
        isInactive == Get(u, "fopState") = "INACTIVE"
        inSessionDoneMode == Get(u, "mode") = "SESSION_DONE"
        decisionEvent == \/ Truthy(Get(u, "decisionEventType"))
                         \/ Get(u, "decisionsVisible") = "true"
                         \/ Get(u, "down") = "true"
        athleteActive == ~isInactive /\ Truthy(athleteEvent)
    IN  [ timer |->
            [ state |-> IF athleteEvent = "StartTime" THEN "running"
                        ELSE IF athleteEvent = "SetTime" THEN "set"
                        ELSE "stopped",
              isActive |-> athleteActive,
              visible |-> ~isInactive /\ ~inSessionDoneMode /\ ~inBreakState(u) /\ athleteActive ],
          breakTimer |->
            [ state |-> IF inBreakState(u) THEN "running" ELSE "stopped",
              isActive |-> ~isInactive /\ inBreakState(u),
              visible |-> ~isInactive /\ ~inSessionDoneMode /\ inBreakState(u) /\ ~decisionEvent ] ]

extractDecisionState(u) ==
    IF Get(u, "athleteTimerEventType") = "StartTime" \/ Get(u, "mode") = "SESSION_DONE"
    THEN [visible |-> FALSE]
    ELSE [visible |-> \/ Get(u, "decisionsVisible") = "true"
                      \/ Get(u, "decisionEventType") = "FULL_DECISION"
                      \/ Get(u, "down") = "true"]

\* the displayMode computeDisplayMode returns
computeDisplayMode(timer, breakTimer, decision) ==
    IF ~decision.visible /\ breakTimer.state = "running" THEN "break"
    ELSE IF decision.visible THEN "decision"
    ELSE IF breakTimer.visible THEN "break"
    ELSE IF timer.visible THEN "athlete"
    ELSE "none"

\* the displayMode of extractTimerAndDecisionState
displayModeOf(u) ==
    computeDisplayMode(extractTimers(u).timer, extractTimers(u).breakTimer,
                       extractDecisionState(u))

-----------------------------------------------------------------------------
(* Frames the producer can send *)

Athletes(keys) == [i \in 1..Len(keys) |-> [key |-> keys[i]]]

DbPayload(hasArray, keys, checksum) ==
    [hasAthletesArray |-> hasArray, athletes |-> Athletes(keys), databaseChecksum |-> checksum]

NoBundle == DbPayload(FALSE, <<>>, Null)

DatabasePayloads ==
    { DbPayload(TRUE, <<"1">>, "d1"),
      DbPayload(TRUE, <<"1", "2">>, Null),
      DbPayload(TRUE, <<>>, "d2"),
      DbPayload(FALSE, <<>>, "d1") }

UpdatePayloads(f) ==
    { [fop |-> f, uiEvent |-> "LiftingOrderUpdated", currentAthleteKey |-> "1",
       sessionAthletes |-> Athletes(<<"1">>),
       liftingOrderKeys |-> <<[kind |-> "key", athleteKey |-> "1"]>>],
      [fop |-> f, uiEvent |-> "GroupDone", breakType |-> "GROUP_DONE"],
      [fop |-> f, uiEvent |-> "BreakStarted", breakType |-> "GROUP_DONE"],
      [fop |-> f, fopState |-> "CURRENT_ATHLETE_DISPLAYED"] }

TimerPayloads(f) ==
    { [fop |-> f, athleteTimerEventType |-> "StartTime"],
      [fop |-> f, breakTimerEventType |-> "BreakStarted"] }

DecisionPayloads(f) ==
    { [fop |-> f, decisionEventType |-> "FULL_DECISION"] }

PayloadsOf(type, f) ==
    IF type = "update" THEN UpdatePayloads(f)
    ELSE IF type = "timer" THEN TimerPayloads(f)
    ELSE DecisionPayloads(f)

CurrentVersion == <<64, 0, 0>>

OldVersion == <<63, 9, 9>>

NoVersion == <<>>

TextMessage(v, ty, p, k, bundled, db) ==
    [version |-> v, type |-> ty, payload |-> p, updateKey |-> k,
     hasBundledDatabase |-> bundled, database |-> db]

BinaryMessage(layout, v, ty, zip) ==
    [layout |-> layout, version |-> v, type |-> ty, zip |-> zip]

\* the key a well-configured producer sends
ProducerKey == IF updateKeyConfigured THEN "good" ELSE Null

\* update / timer / decision text frames a well-configured producer sends
FopFrames(fops) ==
    UNION { { TextMessage(CurrentVersion, ty, p, ProducerKey, FALSE, NoBundle) :
                p \in PayloadsOf(ty, f) } :
            ty \in {"update", "timer", "decision"}, f \in fops }

DatabaseFrames ==
    { TextMessage(CurrentVersion, "database", EmptyMap, ProducerKey, FALSE, db) :
        db \in DatabasePayloads }

BundledFrames ==
    { TextMessage(CurrentVersion, "update", [fop |-> "A", uiEvent |-> "LiftingOrderUpdated"],
                  ProducerKey, TRUE, db) :
        db \in { DbPayload(TRUE, <<"1">>, "d1"), DbPayload(FALSE, <<>>, Null) } }

\* text frames that fail the version check or the authentication check
RejectedTextFrames ==
    { TextMessage(v, ty, IF ty = "database" THEN EmptyMap ELSE [fop |-> "A", uiEvent |-> "GroupDone"],
                  k, FALSE, DbPayload(TRUE, <<"2">>, "d3")) :
        v \in {OldVersion, NoVersion}, ty \in {"update", "database"}, k \in {ProducerKey} }
    \cup
    { TextMessage(CurrentVersion, ty,
                  IF ty = "database" THEN EmptyMap ELSE [fop |-> "A", uiEvent |-> "GroupDone"],
                  "bad", FALSE, DbPayload(TRUE, <<"2">>, "d3")) :
        ty \in {"update", "database"} }

TranslationZips ==
    { [zipOk |-> TRUE, hasEntry |-> TRUE, checksum |-> "t1",
       locales |-> << <<(<<"en">>), [Snatch |-> "Snatch"]>> >>],
      [zipOk |-> TRUE, hasEntry |-> TRUE, checksum |-> "t2",
       locales |-> << <<(<<"fr", "CA">>), [Snatch |-> "Arrach&amp;"]>>,
                      <<(<<"fr">>), [Snatch |-> "Arrache", Total |-> "Total"]>> >>],
      [zipOk |-> TRUE, hasEntry |-> TRUE, checksum |-> Null, locales |-> <<>>],
      [zipOk |-> TRUE, hasEntry |-> FALSE, checksum |-> Null, locales |-> <<>>],
      [zipOk |-> FALSE, hasEntry |-> FALSE, checksum |-> Null, locales |-> <<>>] }

ResourceZips == { [zipOk |-> TRUE, entries |-> <<>>], [zipOk |-> FALSE, entries |-> <<>>] }

DatabaseZips ==
    { [zipOk |-> TRUE, database |-> db] : db \in DatabasePayloads }
    \cup { [zipOk |-> FALSE, database |-> NoBundle] }

ZipsOf(type) ==
    IF type = "database_zip" THEN DatabaseZips
    ELSE IF type = "translations_zip" THEN TranslationZips
    ELSE ResourceZips

\* binary frames of the given types, in the current (versioned) layout
BinaryFrames(types) ==
    UNION { { BinaryMessage("versioned", CurrentVersion, ty, zip) : zip \in ZipsOf(ty) } :
            ty \in types }

\* binary frames in the legacy layout (no version field)
LegacyBinaryFrames ==
    { BinaryMessage("legacy", NoVersion, "translations_zip",
                    [zipOk |-> TRUE, hasEntry |-> TRUE, checksum |-> "t1",
                     locales |-> << <<(<<"en">>), [Snatch |-> "Snatch"]>> >>]) }

\* binary frames that fail the version check
RejectedBinaryFrames ==
    { BinaryMessage("versioned", OldVersion, "database_zip",
                    [zipOk |-> TRUE, database |-> DbPayload(TRUE, <<"2">>, "d3")]),
      BinaryMessage("versioned", OldVersion, "translations_zip",
                    [zipOk |-> TRUE, hasEntry |-> TRUE, checksum |-> "t3",
                     locales |-> << <<(<<"de">>), [Snatch |-> "Reissen"]>> >>]) }

-----------------------------------------------------------------------------
(* The running server *)

Init ==
    /\ hub = HubInit
    /\ conns = [cn \in Conns |-> [status |-> "closed", clientAuthenticated |-> FALSE]]
    /\ activeConnection = Null
    /\ firstConnectionHandled = FALSE
    /\ updateKeyConfigured \in BOOLEAN
    /\ now = Epoch
    /\ emitted = <<>>
    /\ delivered = <<>>
    /\ response = NoResponse
    /\ last = [kind |-> "init", type |-> Null, fop |-> Null, outcome |-> "none",
               conn |-> Null, payload |-> EmptyMap, bundled |-> FALSE]
    /\ frameSeq = 0
    /\ hubReadyCount = 0
    /\ pending = <<>>
    /\ steps = 0
    /\ files = {}

VersionsInBound(h) == \A f \in DOMAIN h.fopVersions : h.fopVersions[f] <= MaxVersion

\* every callback counts as one step of the run
Step == steps < MaxSteps /\ steps' = steps + 1

CountHubReady(events) == Len(SelectSeq(events, LAMBDA e : e.name = "hub:ready"))

Saturate(n) == IF n > MaxHubReady THEN MaxHubReady ELSE n

\* wss.on('connection')
Connect(cn) ==
    /\ Step
    /\ conns[cn].status = "closed"
    /\ conns' = [conns EXCEPT ![cn] = [status |-> "open",
                                        clientAuthenticated |-> ~updateKeyConfigured]]
    /\ activeConnection' = cn
    /\ emitted' = <<>>
    /\ delivered' = <<>>
    /\ response' = NoResponse
    /\ last' = [kind |-> "connect", type |-> Null, fop |-> Null, outcome |-> "none",
                conn |-> cn, payload |-> EmptyMap, bundled |-> FALSE]
    /\ UNCHANGED <<files, hub, firstConnectionHandled, updateKeyConfigured, pending, now, frameSeq, hubReadyCount>>

\* both ws.on('close') callbacks
Close(cn) ==
    /\ Step
    /\ conns[cn].status \in {"open", "closing"}
    /\ LET c == refresh(Ctx(hub), now)
       IN  /\ hub' = c.hub
           /\ emitted' = c.emitted
           /\ delivered' = c.delivered
    /\ conns' = [conns EXCEPT ![cn].status = "closed"]
    /\ activeConnection' = IF activeConnection = cn THEN Null ELSE activeConnection
    /\ response' = NoResponse
    /\ last' = [kind |-> "close", type |-> Null, fop |-> Null, outcome |-> "none",
                conn |-> cn, payload |-> EmptyMap, bundled |-> FALSE]
    /\ hubReadyCount' = 0
    /\ UNCHANGED <<files, firstConnectionHandled, updateKeyConfigured, pending, now, frameSeq>>

\* closeConnection(): the embedding application asks for a full reconnect;
\* without an active connection the call returns false and changes nothing
CloseConnection ==
    /\ Step
    /\ activeConnection # Null
    /\ conns[activeConnection].status = "open"
    /\ conns' = [conns EXCEPT ![activeConnection].status = "closing"]
    /\ emitted' = <<>>
    /\ delivered' = <<>>
    /\ response' = NoResponse
    /\ last' = [kind |-> "closeConnection", type |-> Null, fop |-> Null, outcome |-> "none",
                conn |-> activeConnection, payload |-> EmptyMap, bundled |-> FALSE]
    /\ UNCHANGED <<files, hub, activeConnection, firstConnectionHandled, updateKeyConfigured,
                   pending, now, frameSeq, hubReadyCount>>

\* waitForDatabase(timeoutMs), one call at a time: returns the database when
\* the hub holds one and is not loading, registers the 'database:ready'
\* listener and the timeout otherwise
WaitForDatabase(timeoutMs) ==
    /\ Step
    /\ hub.databaseWait.status # "pending"
    /\ hub' = [hub EXCEPT !.databaseWait =
                  IF ~hub.databaseState.isNull /\ ~hub.isLoadingDatabase
                  THEN [status |-> "resolved", deadline |-> 0]
                  ELSE [status |-> "pending", deadline |-> now + timeoutMs]]
    /\ emitted' = <<>>
    /\ delivered' = <<>>
    /\ response' = NoResponse
    /\ last' = [kind |-> "waitForDatabase", type |-> Null, fop |-> Null, outcome |-> "none",
                conn |-> Null, payload |-> EmptyMap, bundled |-> FALSE]
    /\ UNCHANGED <<files, conns, activeConnection, firstConnectionHandled, updateKeyConfigured,
                   pending, now, frameSeq, hubReadyCount>>

\* the setTimeout callback of a pending waitForDatabase: removes the listener
\* and rejects the promise
WaitTimeout ==
    /\ Step
    /\ hub.databaseWait.status = "pending"
    /\ now >= hub.databaseWait.deadline
    /\ hub' = [hub EXCEPT !.databaseWait.status = "rejected"]
    /\ emitted' = <<>>
    /\ delivered' = <<>>
    /\ response' = NoResponse
    /\ last' = [kind |-> "waitTimeout", type |-> Null, fop |-> Null, outcome |-> "none",
                conn |-> Null, payload |-> EmptyMap, bundled |-> FALSE]
    /\ UNCHANGED <<files, conns, activeConnection, firstConnectionHandled, updateKeyConfigured,
                   pending, now, frameSeq, hubReadyCount>>

\* requestResources(resources) of the WebSocket server: what it sends on the
\* active connection (readyState 1 is an open connection)
requestResources(resources) ==
    IF activeConnection = Null \/ conns[activeConnection].status # "open" THEN NoResponse
    ELSE IF resources = <<>> THEN NoResponse
    ELSE Resp(428, "plugin_preconditions", resources)

\* hub.setRequestResourcesCallback(requestResources), called by the embedding
\* application; the WebSocket server does not call it
SetRequestResourcesCallback ==
    /\ Step
    /\ hub.requestResourcesCallback = Null
    /\ hub' = [hub EXCEPT !.requestResourcesCallback = "requestResources"]
    /\ emitted' = <<>>
    /\ delivered' = <<>>
    /\ response' = NoResponse
    /\ last' = [kind |-> "setRequestResourcesCallback", type |-> Null, fop |-> Null,
                outcome |-> "none", conn |-> Null, payload |-> EmptyMap, bundled |-> FALSE]
    /\ UNCHANGED <<files, conns, activeConnection, firstConnectionHandled, updateKeyConfigured,
                   pending, now, frameSeq, hubReadyCount>>

\* hub.requestPluginPreconditions(missing)
RequestPluginPreconditions(missing) ==
    /\ Step
    /\ response' = IF missing = <<>> THEN NoResponse
                   ELSE IF hub.requestResourcesCallback # Null THEN requestResources(missing)
                   ELSE NoResponse
    /\ emitted' = <<>>
    /\ delivered' = <<>>
    /\ last' = [kind |-> "requestPluginPreconditions", type |-> Null, fop |-> Null,
                outcome |-> "none", conn |-> activeConnection, payload |-> missing,
                bundled |-> FALSE]
    /\ UNCHANGED <<files, hub, conns, activeConnection, firstConnectionHandled,
                   updateKeyConfigured, pending, now, frameSeq, hubReadyCount>>

\* common tail of the two 'message' actions
FrameStep(cn, r, kind, type, fop, payload, bundled) ==
    /\ Step
    /\ VersionsInBound(r.c.hub)
    /\ hub' = r.c.hub
    /\ emitted' = r.c.emitted
    /\ delivered' = r.c.delivered
    /\ response' = r.response
    /\ conns' = [conns EXCEPT ![cn] = [status |-> IF r.close THEN "closing" ELSE "open",
                                        clientAuthenticated |-> r.auth]]
    /\ firstConnectionHandled' = r.handled
    /\ last' = [kind |-> kind, type |-> type, fop |-> fop, outcome |-> r.outcome,
                conn |-> cn, payload |-> payload, bundled |-> bundled]
    /\ frameSeq' = 1 - frameSeq
    /\ hubReadyCount' = Saturate((IF r.handled # firstConnectionHandled THEN 0 ELSE hubReadyCount)
                                 + CountHubReady(r.c.emitted))
    /\ files' = files \cup r.c.written
    /\ UNCHANGED <<activeConnection, updateKeyConfigured, pending, now>>

\* ws.on('message') with isBinary = false
TextFrame(cn, message) ==
    /\ conns[cn].status = "open"
    /\ FrameStep(cn,
                 TextFrameResult(Ctx(hub), message, conns[cn].clientAuthenticated,
                                 firstConnectionHandled, now),
                 "text", message.type,
                 IF message.type = "database" THEN Null ELSE FopNameOf(message.payload),
                 message.payload, message.hasBundledDatabase)

\* ws.on('message') with isBinary = true
BinaryFrame(cn, frame) ==
    /\ conns[cn].status = "open"
    /\ FrameStep(cn,
                 BinaryFrameResult(Ctx(hub), frame, conns[cn].clientAuthenticated,
                                   firstConnectionHandled, now),
                 "binary", frame.type, Null, EmptyMap, FALSE)

\* common tail of the actions that run one part of a split 'message' callback
PartStep(cn, r, kind, message, auth, queue) ==
    /\ Step
    /\ VersionsInBound(r.c.hub)
    /\ hub' = r.c.hub
    /\ emitted' = r.c.emitted
    /\ delivered' = r.c.delivered
    /\ response' = r.response
    /\ conns' = [conns EXCEPT ![cn].clientAuthenticated = auth]
    /\ firstConnectionHandled' = r.handled
    /\ pending' = queue
    /\ last' = [kind |-> kind, type |-> message.type,
                fop |-> IF message.type = "database" THEN Null ELSE FopNameOf(message.payload),
                outcome |-> r.outcome, conn |-> cn, payload |-> message.payload,
                bundled |-> message.hasBundledDatabase]
    /\ frameSeq' = 1 - frameSeq
    /\ hubReadyCount' = Saturate((IF r.handled # firstConnectionHandled THEN 0 ELSE hubReadyCount)
                                 + CountHubReady(r.c.emitted))
    /\ files' = files \cup r.c.written
    /\ UNCHANGED <<activeConnection, updateKeyConfigured, now>>

ReceivePart(cn, r, message) ==
    /\ r.suspended
    /\ PartStep(cn, r, "receive", message, r.auth,
                Append(pending, [conn |-> cn, message |-> message, thrown |-> r.thrown]))

\* ws.on('message') with isBinary = false, up to the first await of a callback
\* that suspends before it routes the frame; the frame is dispatched while
\* earlier callbacks may still be suspended
ReceiveText(cn, message) ==
    /\ conns[cn].status = "open"
    /\ SuspendsBeforeRouting(message)
    /\ Len(pending) < MaxPending
    /\ ReceivePart(cn,
                   TextFramePrefix(Ctx(hub), message, conns[cn].clientAuthenticated,
                                   firstConnectionHandled, now),
                   message)

ResumePart(e) ==
    PartStep(e.conn,
             TextFrameContinuation(Ctx(hub), e.message, e.thrown,
                                   conns[e.conn].clientAuthenticated, firstConnectionHandled, now),
             "text", e.message, conns[e.conn].clientAuthenticated, Tail(pending))

\* the oldest suspended callback runs to its end
Resume ==
    /\ pending # <<>>
    /\ ResumePart(Head(pending))

\* CompetitionHub.subscribe: registers the callback and hands it the current
\* state ('init') or 'waiting' at once
Subscribe(s) ==
    /\ Step
    /\ s \notin hub.subscribers
    /\ hub' = [hub EXCEPT !.subscribers = @ \cup {s}]
    /\ emitted' = <<>>
    /\ delivered' = <<[type |-> IF hub.state # Null THEN "init" ELSE "waiting",
                       key |-> <<"direct", "subscribe">>, to |-> {s}]>>
    /\ response' = NoResponse
    /\ last' = [kind |-> "subscribe", type |-> Null, fop |-> Null, outcome |-> "none",
                conn |-> Null, payload |-> EmptyMap, bundled |-> FALSE]
    /\ UNCHANGED <<files, conns, activeConnection, firstConnectionHandled, updateKeyConfigured, pending, now,
                   frameSeq, hubReadyCount>>

\* the unsubscribe function subscribe returned
Unsubscribe(s) ==
    /\ Step
    /\ s \in hub.subscribers
    /\ hub' = [hub EXCEPT !.subscribers = @ \ {s}]
    /\ emitted' = <<>>
    /\ delivered' = <<>>
    /\ response' = NoResponse
    /\ last' = [kind |-> "unsubscribe", type |-> Null, fop |-> Null, outcome |-> "none",
                conn |-> Null, payload |-> EmptyMap, bundled |-> FALSE]
    /\ UNCHANGED <<files, conns, activeConnection, firstConnectionHandled, updateKeyConfigured, pending, now,
                   frameSeq, hubReadyCount>>

\* passage of time between callbacks
Tick ==
    /\ Step
    /\ now + TickMs <= Epoch + MaxTicks * TickMs
    /\ now' = now + TickMs
    /\ UNCHANGED <<files, hub, conns, activeConnection, firstConnectionHandled, updateKeyConfigured, pending,
                   emitted, delivered, response, last, frameSeq, hubReadyCount>>

\* Inputs of the default specification: one producer connection (which may
\* drop and reconnect) feeding platform "A", and one subscriber.
SpecTextFrames ==
    FopFrames({"A"})
    \cup { m \in DatabaseFrames : m.database.databaseChecksum # "d2" }
    \cup { m \in BundledFrames : m.database.hasAthletesArray }
    \cup { m \in RejectedTextFrames :
             \/ m.version = OldVersion /\ m.type = "update"
             \/ m.version = NoVersion /\ m.type = "database"
             \/ m.updateKey = "bad" /\ m.type = "update" }

SpecBinaryFrames ==
    { b \in BinaryFrames({"database_zip"}) : b.zip.database.databaseChecksum = "d1" }
    \cup { b \in BinaryFrames({"translations_zip"}) : b.zip.checksum # Null \/ ~b.zip.zipOk }
    \cup RejectedBinaryFrames

Next ==
    \/ Connect("c1")
    \/ Close("c1")
    \/ \E m \in SpecTextFrames : TextFrame("c1", m)
    \/ \E b \in SpecBinaryFrames : BinaryFrame("c1", b)
    \/ Subscribe("ok")
    \/ Unsubscribe("ok")
    \/ Tick

Spec == Init /\ [][Next]_vars

\* Inputs of the pipelined specification: one producer connection whose
\* frames for platform "A" are dispatched back to back, so that a callback can
\* still be suspended when the next frame arrives.
PipelinedPlainFrames ==
    { m \in FopFrames({"A"}) :
        \/ m.type \in {"timer", "decision"}
        \/ Has(m.payload, "fopState")
        \/ Get(m.payload, "uiEvent") = "GroupDone" }

PipelinedSuspendingFrames ==
    BundledFrames \cup { m \in DatabaseFrames : m.database.databaseChecksum = "d1" }

NextPipelined ==
    \/ Connect("c1")
    \/ \E m \in PipelinedPlainFrames : TextFrame("c1", m)
    \/ \E m \in PipelinedSuspendingFrames : ReceiveText("c1", m)
    \/ Resume
    \/ Subscribe("ok")

SpecPipelined == Init /\ [][NextPipelined]_vars

\* Inputs of the reconnect specification: connection "c1" may drop and come
\* back; "c2" is a newcomer accepted while "c1" is the active connection.  Each
\* connection sends the frames of a producer that starts up: translations and
\* pictures archives, the database, an update for platform "A" or "B".
ReconnectTextFrames ==
    { m \in DatabaseFrames : m.database.databaseChecksum = "d1" /\ m.database.hasAthletesArray }
    \cup { m \in FopFrames(Fops) : Get(m.payload, "uiEvent") = "LiftingOrderUpdated" }

ReconnectBinaryFrames ==
    { b \in BinaryFrames({"translations_zip"}) : b.zip.checksum = "t1" }
    \cup { b \in BinaryFrames({"pictures_zip"}) : b.zip.zipOk }

\* a second producer connects while the first is still connected
Newcomer == activeConnection = "c1" /\ Connect("c2")

NextReconnect ==
    \/ Connect("c1")
    \/ Newcomer
    \/ \E cn \in Conns : Close(cn)
    \/ \E cn \in Conns, m \in ReconnectTextFrames : TextFrame(cn, m)
    \/ \E cn \in Conns, b \in ReconnectBinaryFrames : BinaryFrame(cn, b)

SpecReconnect == Init /\ [][NextReconnect]_vars

\* Inputs of the subscriber specification: a well-behaved subscriber and one
\* whose callback throws, while one producer connection loads a database and
\* sends updates for platform "A".
SubscriberTextFrames ==
    { m \in DatabaseFrames : m.database.databaseChecksum = "d1" /\ m.database.hasAthletesArray }
    \cup { m \in FopFrames({"A"}) : Get(m.payload, "uiEvent") = "LiftingOrderUpdated" }
    \cup { m \in BundledFrames : m.database.hasAthletesArray }

NextSubscribers ==
    \/ Connect("c1")
    \/ Close("c1")
    \/ \E m \in SubscriberTextFrames : TextFrame("c1", m)
    \/ \E sub \in Subs : Subscribe(sub)
    \/ \E sub \in Subs : Unsubscribe(sub)

SpecSubscribers == Init /\ [][NextSubscribers]_vars

\* Inputs of the translation specification: the producer sends the regional
\* locale fr-CA always with the same payload and the base locale fr with two
\* different payloads, each in a translations ZIP of its own.
RegionalPayload == [Snatch |-> "Arrach&amp;"]

BasePayloads == { [Snatch |-> "Arrache", Total |-> "Total"], [Total |-> "Somme"] }

TranslationWrites ==
    { BinaryMessage("versioned", CurrentVersion, "translations_zip",
                    [zipOk |-> TRUE, hasEntry |-> TRUE, checksum |-> Null,
                     locales |-> << <<loc, map>> >>]) :
        <<loc, map>> \in ({<<"fr", "CA">>} \X {RegionalPayload}) \cup ({<<"fr">>} \X BasePayloads) }

NextTranslations ==
    \/ Connect("c1")
    \/ Close("c1")
    \/ \E b \in TranslationWrites : BinaryFrame("c1", b)
    \/ \E m \in FopFrames({"A"}) : m.type = "timer" /\ TextFrame("c1", m)
    \/ Tick

SpecTranslations == Init /\ [][NextTranslations]_vars

\* Inputs of the order specification: update frames that carry the session's
\* athletes and its order lists, one whose lists name exactly the session's
\* athletes and one whose lifting order also names an athlete the session
\* list does not hold (resolved as "not found in session").
OrderPayloads(f) ==
    { [fop |-> f, uiEvent |-> "LiftingOrderUpdated", currentAthleteKey |-> "1",
       sessionAthletes |-> Athletes(<<"1", "2">>),
       startOrderKeys |-> <<[kind |-> "key", athleteKey |-> "1"],
                            [kind |-> "key", athleteKey |-> "2"]>>,
       liftingOrderKeys |-> <<[kind |-> "key", athleteKey |-> "2"], [kind |-> "spacer"],
                              [kind |-> "key", athleteKey |-> "1"]>>],
      [fop |-> f, uiEvent |-> "LiftingOrderUpdated", currentAthleteKey |-> "1",
       sessionAthletes |-> Athletes(<<"1">>),
       startOrderKeys |-> <<[kind |-> "key", athleteKey |-> "1"]>>,
       liftingOrderKeys |-> <<[kind |-> "key", athleteKey |-> "1"], [kind |-> "spacer"],
                              [kind |-> "key", athleteKey |-> "2"]>>] }

OrderFrames ==
    { TextMessage(CurrentVersion, "update", p, ProducerKey, FALSE, NoBundle) :
        p \in UNION { OrderPayloads(f) : f \in Fops } }

NextOrders ==
    \/ Connect("c1")
    \/ Close("c1")
    \/ \E m \in OrderFrames \cup FopFrames({"A"}) : TextFrame("c1", m)
    \/ Tick

SpecOrders == Init /\ [][NextOrders]_vars

\* The server with the exported closeConnection(): one producer connection
\* sends the frames of Spec, and the application may close it.
NextServerClose ==
    \/ Connect("c1")
    \/ Close("c1")
    \/ \E m \in SpecTextFrames : TextFrame("c1", m)
    \/ \E b \in SpecBinaryFrames : BinaryFrame("c1", b)
    \/ CloseConnection

SpecServerClose == Init /\ [][NextServerClose]_vars

\* Inputs of the wait specification: a consumer calls waitForDatabase with a
\* short or with the default timeout while one producer connection loads a
\* database, sends updates for platform "A", and drops.
WaitTimeouts == {TickMs, DefaultWaitMs}

WaitTextFrames ==
    { m \in DatabaseFrames : m.database.databaseChecksum = "d1" }
    \cup { m \in FopFrames({"A"}) : Get(m.payload, "uiEvent") = "LiftingOrderUpdated" }

NextWaiters ==
    \/ Connect("c1")
    \/ Close("c1")
    \/ \E m \in WaitTextFrames : TextFrame("c1", m)
    \/ \E timeoutMs \in WaitTimeouts : WaitForDatabase(timeoutMs)
    \/ WaitTimeout
    \/ Tick

SpecWaiters == Init /\ [][NextWaiters]_vars

\* Inputs of the extraction specification: flags, pictures and logos ZIPs
\* whose entries are a plain file, a file in a directory of the ZIP, a file
\* named with ".." components and a file named with an absolute path.
FileEntry(absolute, parts) ==
    [isDirectory |-> FALSE, entryName |-> [absolute |-> absolute, parts |-> parts]]

DirectoryEntry(parts) ==
    [isDirectory |-> TRUE, entryName |-> [absolute |-> FALSE, parts |-> parts]]

EntryLists ==
    { << FileEntry(FALSE, <<"CAN.svg">>) >>,
      << DirectoryEntry(<<"sub">>), FileEntry(FALSE, <<"sub", "a.svg">>) >>,
      << FileEntry(FALSE, <<"..", "..", "app.js">>) >>,
      << FileEntry(FALSE, <<"..", "logos", "x.png">>) >>,
      << FileEntry(TRUE, <<"etc", "passwd">>) >> }

ExtractFrames ==
    { BinaryMessage("versioned", CurrentVersion, ty, [zipOk |-> TRUE, entries |-> es]) :
        ty \in {"flags_zip", "pictures_zip", "logos_zip"}, es \in EntryLists }

NextExtract ==
    \/ Connect("c1")
    \/ Close("c1")
    \/ \E b \in ExtractFrames : BinaryFrame("c1", b)
    \/ \E m \in FopFrames({"A"}) : m.type = "decision" /\ TextFrame("c1", m)

SpecExtract == Init /\ [][NextExtract]_vars

\* the event names the package exports for the three frame types
EVENT_TYPES == [update |-> "update", timer |-> "timer", decision |-> "decision"]

\* The server attached to the hub, with a plugin that asks for resources and
\* an application that may install the request callback.
NextRequests ==
    \/ Connect("c1")
    \/ Close("c1")
    \/ CloseConnection
    \/ \E m \in FopFrames({"A"}) : TextFrame("c1", m)
    \/ \E missing \in {<<>>, <<"flags_zip">>, <<"flags_zip", "logos_zip">>} :
          RequestPluginPreconditions(missing)
    \/ SetRequestResourcesCallback

SpecRequests == Init /\ [][NextRequests]_vars

\* Inputs of the display specification: timer, decision and update frames for
\* platform "A" that start, stop and pause the two timers, show a decision,
\* enter a break and end the session; the database comes in a frame of its own
\* or with a timer frame.
DisplayPayloads(ty) ==
    IF ty = "timer"
    THEN { [fop |-> "A", athleteTimerEventType |-> "StartTime"],
           [fop |-> "A", athleteTimerEventType |-> "StopTime"],
           [fop |-> "A", breakTimerEventType |-> "StartTime"],
           [fop |-> "A", breakTimerEventType |-> "Pause"] }
    ELSE IF ty = "decision"
    THEN { [fop |-> "A", decisionEventType |-> "FULL_DECISION"],
           [fop |-> "A", decisionEventType |-> "DOWN_SIGNAL", down |-> "true"] }
    ELSE { [fop |-> "A", uiEvent |-> "BreakStarted", fopState |-> "BREAK"],
           [fop |-> "A", uiEvent |-> "GroupDone", mode |-> "SESSION_DONE"] }

DisplayFrames ==
    { TextMessage(CurrentVersion, ty, p, ProducerKey, bundled,
                  IF bundled THEN DbPayload(TRUE, <<"1">>, "d1") ELSE NoBundle) :
        <<ty, p, bundled>> \in
            UNION { {ty} \X DisplayPayloads(ty) \X {FALSE} : ty \in {"update", "timer", "decision"} }
            \cup { <<"timer", [fop |-> "A", athleteTimerEventType |-> "StopTime"], TRUE>> } }
    \cup { TextMessage(CurrentVersion, "database", EmptyMap, ProducerKey, FALSE,
                        DbPayload(TRUE, <<"1">>, "d1")) }

NextDisplay ==
    \/ Connect("c1")
    \/ \E m \in DisplayFrames : TextFrame("c1", m)
    \/ Subscribe("ok")
    \/ Tick

SpecDisplay == Init /\ [][NextDisplay]_vars

\* Inputs of the empty-database specification: the producer announces the
\* database in a text frame without athletes (empty or absent athletes array,
\* with or without a checksum) and sends the athletes in a database_zip frame.
EmptyDatabaseFrames ==
    { TextMessage(CurrentVersion, "database", EmptyMap, ProducerKey, FALSE, db) :
        db \in { DbPayload(TRUE, <<>>, "d1"), DbPayload(TRUE, <<>>, Null),
                 DbPayload(FALSE, <<>>, "d2") } }

FollowingZipFrames ==
    { b \in BinaryFrames({"database_zip"}) : b.zip.zipOk /\ b.zip.database.athletes # <<>> }

NextEmptyDatabase ==
    \/ Connect("c1")
    \/ Close("c1")
    \/ \E m \in EmptyDatabaseFrames : TextFrame("c1", m)
    \/ \E b \in FollowingZipFrames : BinaryFrame("c1", b)
    \/ Tick

SpecEmptyDatabase == Init /\ [][NextEmptyDatabase]_vars

\* Inputs of the two-platform specification: update, timer and decision
\* frames for the platforms "A" and "B", and an update frame for "A" that
\* comes with the database.
TwoFopFrames ==
    FopFrames(Fops) \cup { m \in BundledFrames : m.database.hasAthletesArray }

NextTwoFops ==
    \/ Connect("c1")
    \/ \E m \in TwoFopFrames : TextFrame("c1", m)
    \/ Tick

SpecTwoFops == Init /\ [][NextTwoFops]_vars

-----------------------------------------------------------------------------
(* Vocabulary of the properties *)

\* the step is a 'message' callback
IsFrame == frameSeq' # frameSeq

\* the callback described by l handled a text frame of one of the given types
\* that passed the version check and the authentication check
Passed(l, types) ==
    /\ l.kind = "text"
    /\ l.type \in types
    /\ l.outcome \in {"routed", "exception"}

\* the callback described by l rejected its frame at the version or authentication check
RejectedFrame(l) == l.outcome \in {"version_rejected", "auth_rejected"}

Emitted(events, name, f) == \E i \in 1..Len(events) : events[i].name = name /\ events[i].fop = f

EmittedAny(events, name) == \E i \in 1..Len(events) : events[i].name = name

\* the snapshot of FOP f holds every field of the payload, with the payload's value
ContainsFields(h, f, payload) ==
    \A k \in DOMAIN payload :
        /\ Has(getFopUpdate(h, f), k)
        /\ getFopUpdate(h, f)[k] = payload[k]

\* lastDataUpdate of FOP f, 0 when the FOP has no snapshot
LastDataUpdateOf(h, f) ==
    IF Has(getFopUpdate(h, f), "lastDataUpdate") THEN getFopUpdate(h, f).lastDataUpdate ELSE 0

\* the hub as constructed, whoever subscribed
Pristine(h) == [h EXCEPT !.subscribers = {}] = HubInit

TranslationStoreNonEmpty(h) == DOMAIN h.translations # {}

-----------------------------------------------------------------------------
(* Properties *)

\* C1: in every reachable state isReady() is true if and only if the database
\* holds at least one athlete and the translation store holds at least one
\* locale map.
C1_ReadyIffDatabaseAndTranslations ==
    isReady(hub) <=> (HasDatabaseAthletes(hub) /\ TranslationStoreNonEmpty(hub))

\* C2: once an update, timer or decision text frame that passed the version and
\* authentication checks has been answered 200, 202 or 428, the snapshot of its
\* FOP contains the fields of the frame.
C2_MergedWhateverTheStatus ==
    ( /\ Passed(last, {"update", "timer", "decision"})
      /\ last.outcome = "routed"
      /\ response.status \in {200, 202, 428} )
    => ContainsFields(hub, last.fop, last.payload)

\* C3: a lone update frame that arrives at the hub as constructed (no database
\* frame, no translations frame before it) is answered 428 with
\* missing = [database, translations_zip], and emits no hub:ready.
C3_LoneUpdateNeedsBoth ==
    [][ ( /\ IsFrame
          /\ Pristine(hub)
          /\ Passed(last', {"update"})
          /\ ~last'.bundled )
        => /\ response'.status = 428
           /\ response'.missing = <<"database", "translations_zip">>
           /\ ~EmittedAny(emitted', "hub:ready") ]_vars

\* C4: of two successive update frames for the same FOP that pass the version
\* and authentication checks, the second leaves getFopStateVersion of that FOP
\* strictly greater than the first left it.
C4_VersionStrictlyIncreases ==
    [][ ( /\ IsFrame
          /\ Passed(last, {"update"})
          /\ Passed(last', {"update"})
          /\ last'.fop = last.fop )
        => getFopStateVersion(hub', last'.fop) > getFopStateVersion(hub, last.fop) ]_vars

\* C5: no step (frame, database load, disconnect, reconnect, subscription,
\* passage of time) decreases the version of any FOP.
C5_VersionNeverDecreases ==
    [][ \A f \in Fops : getFopStateVersion(hub', f) >= getFopStateVersion(hub, f) ]_vars

\* C5 witness: the producer has disconnected after frames raised the version of
\* platform A, and the version is still there.
C5_Witness ==
    /\ last.kind = "close"
    /\ getFopStateVersion(hub, "A") >= 2
    /\ hub.fopUpdates = EmptyMap

C7_ActivityReopensSession ==
    [][ ( /\ IsFrame
          /\ Passed(last', {"update", "timer", "decision"})
          /\ isSessionDone(hub, last'.fop)
          /\ (last'.type = "update" => Get(last'.payload, "uiEvent") # "GroupDone") )
        => ~isSessionDone(hub', last'.fop) ]_vars

\* C8: session:done is emitted exactly by the steps that change isDone of a FOP
\* from false to true, session:reopened exactly by those that change it from
\* true to false.
C8_SessionEventsOnEdges ==
    [][ \A f \in Fops :
          /\ Emitted(emitted', "session:done", f)
               <=> (~isSessionDone(hub, f) /\ isSessionDone(hub', f))
          /\ Emitted(emitted', "session:reopened", f)
               <=> (isSessionDone(hub, f) /\ ~isSessionDone(hub', f)) ]_vars

\* C9: between two consecutive full resets (first-connection reset, producer
\* disconnect) hub:ready is emitted at most once.
C9_HubReadyOncePerReset == hubReadyCount <= 1

\* C10: a frame that fails the version check or the authentication check
\* leaves the hub (database, translations, snapshots, session status,
\* versions, readiness flags, subscribers) as it was.
C10_RejectedFrameChangesNothing ==
    [][ ( IsFrame /\ RejectedFrame(last') ) => hub' = hub ]_vars

\* a suspended callback in q has yet to merge an update, timer or decision
\* frame for FOP f
AwaitsMerge(q, f) ==
    \E i \in 1..Len(q) :
        /\ q[i].message.type \in {"update", "timer", "decision"}
        /\ ~q[i].thrown
        /\ FopNameOf(q[i].message.payload) = f

\* the step from hub h to hub h2 lost the database, the translation store or a
\* resource flag
Wiped(h, h2) ==
    \/ ~h.databaseState.isNull /\ h2.databaseState.isNull
    \/ TranslationStoreNonEmpty(h) /\ ~TranslationStoreNonEmpty(h2)
    \/ h.flagsLoaded /\ ~h2.flagsLoaded
    \/ h.logosLoaded /\ ~h2.logosLoaded
    \/ h.picturesLoaded /\ ~h2.picturesLoaded

\* C11: at most one producer connection is held: when a new connection is
\* accepted the predecessor is closed, so the only open connection is the
\* active one, and a frame of a connection that is not the active one is not
\* applied to the hub.
C11_SingleProducerConnection ==
    [][ /\ \A cn \in Conns : conns'[cn].status = "open" => activeConnection' = cn
        /\ (IsFrame /\ last'.conn # activeConnection) => hub' = hub ]_vars

\* C12: for each FOP, update, timer and decision frames are merged and emitted
\* in the order in which they were received: no frame is merged while a frame
\* for the same FOP that was received before it (with a bundled database, or
\* behind a pending database frame) has yet to be merged.
C12_MergedInReceiveOrder ==
    [][ ( /\ IsFrame
          /\ pending' = pending
          /\ Passed(last', {"update", "timer", "decision"})
          /\ last'.outcome = "routed" )
        => ~AwaitsMerge(pending, last'.fop) ]_vars

\* C13: when the producer connection closes, the database snapshot and the
\* translation store are cleared, the readiness flags of translations, flags,
\* logos and pictures are false, and 'waiting' is emitted.
C13_CloseEntersWaitingState ==
    last.kind = "close"
    => /\ hub.databaseState.isNull
       /\ ~TranslationStoreNonEmpty(hub)
       /\ ~hub.translationsReady
       /\ ~hub.flagsReady
       /\ ~hub.logosReady
       /\ ~hub.picturesReady
       /\ EmittedAny(emitted, "waiting")

\* C14: the first-connection reset happens on the first producer connection
\* only: no frame of connection "c2", which is accepted after "c1", wipes the
\* database, the translation store or a resource flag.
C14_NoResetOnLaterConnection ==
    [][ (IsFrame /\ last'.conn = "c2") => ~Wiped(hub, hub') ]_vars

\* C15: a database frame whose checksum equals the checksum of the last loaded
\* database changes neither the database snapshot, nor its index, nor any FOP
\* version, and emits no event.
C15_DuplicateChecksumIsNoOp ==
    [][ \A m \in DatabaseFrames :
          ( /\ TextFrame("c1", m)
            /\ last'.outcome = "routed"
            /\ m.database.databaseChecksum # Null
            /\ m.database.databaseChecksum = hub.lastDatabaseChecksum )
          => /\ hub'.databaseState = hub.databaseState
             /\ hub'.databaseAthleteIndex = hub.databaseAthleteIndex
             /\ hub'.fopVersions = hub.fopVersions
             /\ emitted' = <<>> ]_vars

\* C16: a step that ingests a database (it emits database:ready) strictly
\* increases the version of every FOP for which the hub holds a version.
C16_IngestBumpsEveryHeldVersion ==
    [][ (IsFrame /\ EmittedAny(emitted', "database:ready"))
        => \A f \in DOMAIN hub.fopVersions :
              getFopStateVersion(hub', f) > getFopStateVersion(hub, f) ]_vars

\* C17: a database frame with a new checksum that arrives while the loading
\* latch is set is answered 202 already_loading and leaves the database
\* snapshot as it was.
C17_SecondIngestAlreadyLoading ==
    [][ \A m \in DatabaseFrames :
          ( /\ TextFrame("c1", m)
            /\ last'.outcome = "routed"
            /\ hub.isLoadingDatabase
            /\ ~( /\ m.database.databaseChecksum # Null
                  /\ m.database.databaseChecksum = hub.lastDatabaseChecksum ) )
          => /\ response'.status = 202
             /\ response'.reason = "already_loading"
             /\ hub'.databaseState = hub.databaseState ]_vars

\* C18: an update, timer or decision frame that arrives less than 1000 ms
\* after the hub requested the database is answered 202 waiting_for_database
\* and names no missing precondition (no further database request).
C18_DeferredWhileDatabaseRequested ==
    [][ ( /\ IsFrame
          /\ Passed(last', {"update", "timer", "decision"})
          /\ last'.outcome = "routed"
          /\ ~last'.bundled
          /\ hub.databaseRequested > 0
          /\ now - hub.databaseRequested < DatabaseRequestWindowMs )
        => /\ response'.status = 202
           /\ response'.reason = "waiting_for_database"
           /\ response'.missing = <<>> ]_vars

\* the event kind of a frame: its type with its uiEvent (update), timer event
\* type (timer) or decision event type (decision)
EventKind(l) ==
    << l.type,
       IF l.type = "update" THEN Get(l.payload, "uiEvent")
       ELSE IF l.type = "timer"
            THEN IF Has(l.payload, "athleteTimerEventType") THEN l.payload.athleteTimerEventType
                 ELSE Get(l.payload, "breakTimerEventType")
       ELSE Get(l.payload, "decisionEventType") >>

\* position of the fop_update broadcast among the deliveries d, 0 if none
FopDelivery(d) ==
    IF \E i \in 1..Len(d) : d[i].type = "fop_update"
    THEN CHOOSE i \in 1..Len(d) : d[i].type = "fop_update"
    ELSE 0

\* the only FOP broadcast delivered in the last 100 ms is the one of the
\* previous callback
OnlyLastDeliveryRecent ==
    /\ FopDelivery(delivered) # 0
    /\ \A k \in DOMAIN hub.lastBroadcastTime :
          (k[1] # "global" /\ now - hub.lastBroadcastTime[k] < broadcastDebounceMs)
          => k = delivered[FopDelivery(delivered)].key

\* C19: the broadcast of a merged frame is suppressed if and only if the
\* previous delivered broadcast for the same (FOP, event kind) pair is less
\* than 100 ms old.  Stated for a merged frame that follows a frame whose
\* broadcast was delivered, no other FOP broadcast having been delivered in
\* the last 100 ms: its own broadcast is suppressed exactly when it has the FOP
\* and the event kind of that frame and arrives within 100 ms of it.
C19_SuppressedIffSamePairWithinWindow ==
    [][ ( /\ IsFrame
          /\ Passed(last, {"update", "timer", "decision"})
          /\ OnlyLastDeliveryRecent
          /\ Passed(last', {"update", "timer", "decision"})
          /\ Emitted(emitted', "fop_update", last'.fop) )
        => ( FopDelivery(delivered') = 0
             <=> /\ last'.fop = last.fop
                 /\ EventKind(last') = EventKind(last)
                 /\ now - hub.lastBroadcastTime[delivered[FopDelivery(delivered)].key]
                      < broadcastDebounceMs ) ]_vars

\* C20: the same update frame applied twice within 100 ms is merged twice and
\* raises the version of its FOP by one each time, while the broadcast of the
\* second is handed to no subscriber.
C20_DebouncedUpdateStillMerged ==
    [][ ( /\ IsFrame
          /\ Passed(last, {"update"})
          /\ Passed(last', {"update"})
          /\ ~last.bundled /\ ~last'.bundled
          /\ last'.payload = last.payload
          /\ FopDelivery(delivered) # 0
          /\ now - hub.lastBroadcastTime[delivered[FopDelivery(delivered)].key]
               < broadcastDebounceMs )
        => /\ getFopStateVersion(hub', last'.fop) = getFopStateVersion(hub, last.fop) + 1
           /\ ContainsFields(hub', last'.fop, last'.payload)
           /\ FopDelivery(delivered') = 0 ]_vars

\* C21..C30

\* the step is a 'close' callback
IsClose == last'.kind = "close" /\ conns' # conns

\* C21: when a callback of the server broadcasts, the first message is handed
\* to every registered subscriber, the subscribers whose callback throws are
\* removed from the set and the others stay and receive the later messages,
\* and the callback that broadcast runs to its end (a text frame is answered).
C21_ThrowingSubscriberIsolated ==
    [][ ((IsFrame \/ IsClose) /\ delivered' # <<>>)
        => /\ delivered'[1].to = hub.subscribers
           /\ \A i \in 2..Len(delivered') : delivered'[i].to = hub.subscribers \ ThrowingSubs
           /\ hub'.subscribers = hub.subscribers \ ThrowingSubs
           /\ (last'.kind = "text" => last'.outcome = "routed" /\ response'.status # 0) ]_vars

\* C21 witness: a frame was broadcast to the throwing and to the well-behaved
\* subscriber, and only the well-behaved one is still registered.
C21_Witness ==
    /\ last.kind = "text"
    /\ Len(delivered) >= 2
    /\ delivered[1].to = {"ok", "thrower"}
    /\ delivered[2].to = {"ok"}
    /\ hub.subscribers = {"ok"}

\* the frame of this step was merged into the snapshot of platform f
MergedInto(f) == getFopStateVersion(hub', f) = getFopStateVersion(hub, f) + 1

\* the fields of a snapshot that no timer or decision frame is to change
AthleteFieldsOf(h, f) ==
    LET u == getFopUpdate(h, f)
    IN  [ currentAthleteKey |-> Get(u, "currentAthleteKey"),
          sessionAthletes   |-> Get(u, "sessionAthletes"),
          startOrderKeys    |-> Get(u, "startOrderKeys"),
          liftingOrderKeys  |-> Get(u, "liftingOrderKeys"),
          current           |-> getCurrentAthlete(h, f) ]

\* C22: a timer or decision frame merged into a platform's snapshot leaves
\* currentAthleteKey, sessionAthletes and the order key lists as they were,
\* and getCurrentAthlete resolves the same athlete after the frame as before.
C22_TimerDecisionKeepAthleteFields ==
    [][ \A f \in Fops :
          (IsFrame /\ Passed(last', {"timer", "decision"}) /\ last'.fop = f /\ MergedInto(f))
          => AthleteFieldsOf(hub', f) = AthleteFieldsOf(hub, f) ]_vars

\* C23: whenever the regional locale fr-CA and its base fr are both stored,
\* every key of translations[fr] is a key of translations[fr-CA], with the
\* decoded value of the regional payload where that payload defines the key
\* and the value translations[fr] holds now otherwise.
C23_RegionalExtendsCurrentBase ==
    LET base == hub.translations[<<"fr">>]
        regional == hub.translations[<<"fr", "CA">>]
    IN  (<<"fr">> \in DOMAIN hub.translations /\ <<"fr", "CA">> \in DOMAIN hub.translations)
        => \A k \in DOMAIN base :
              /\ k \in DOMAIN regional
              /\ regional[k] = IF k \in DOMAIN RegionalPayload
                               THEN decodeHTMLEntities(RegionalPayload[k])
                               ELSE base[k]

\* athlete keys of the order lists of snapshot u, spacers excluded
OrderAthleteKeys(u) ==
    LET keysOf(field) == IF Has(u, field)
                         THEN { u[field][i].athleteKey :
                                  i \in { j \in 1..Len(u[field]) : u[field][j].kind # "spacer" } }
                         ELSE {}
    IN  keysOf("startOrderKeys") \cup keysOf("liftingOrderKeys")

\* keys of the session's athletes of snapshot u
SessionAthleteKeys(u) ==
    IF Has(u, "sessionAthletes")
    THEN { u.sessionAthletes[i].key : i \in 1..Len(u.sessionAthletes) } \ {Null}
    ELSE {}

\* C24: in every merged snapshot the athlete keys of startOrderKeys and
\* liftingOrderKeys together (spacers excluded) are exactly the keys of
\* sessionAthletes.
C24_OrderKeysAreSessionKeys ==
    \A f \in DOMAIN hub.fopUpdates :
        OrderAthleteKeys(hub.fopUpdates[f]) = SessionAthleteKeys(hub.fopUpdates[f])

\* C24 (amended): the snapshot holds the session's athletes and the order
\* lists as the update frame carries them: after a merged update frame that
\* carries sessionAthletes, startOrderKeys and liftingOrderKeys, the athlete
\* keys of the snapshot's order lists and the keys of its sessionAthletes are
\* those of the frame, so the two sets are equal exactly when the frame's are.
C24_SnapshotKeysAreFrameKeys ==
    [][ \A f \in Fops :
          ( /\ IsFrame /\ Passed(last', {"update"}) /\ last'.fop = f /\ MergedInto(f)
            /\ {"sessionAthletes", "startOrderKeys", "liftingOrderKeys"} \subseteq DOMAIN last'.payload )
          => /\ OrderAthleteKeys(hub'.fopUpdates[f]) = OrderAthleteKeys(last'.payload)
             /\ SessionAthleteKeys(hub'.fopUpdates[f]) = SessionAthleteKeys(last'.payload) ]_vars

\* C24 witness: the merged snapshot of platform A has a lifting order that
\* names athlete "2" while its sessionAthletes holds athlete "1" only, and the
\* resolved lifting order has the minimal entry of an athlete not found.
C24_Witness ==
    /\ Passed(last, {"update"}) /\ last.fop = "A"
    /\ "A" \in DOMAIN hub.fopUpdates
    /\ OrderAthleteKeys(hub.fopUpdates["A"]) = {"1", "2"}
    /\ SessionAthleteKeys(hub.fopUpdates["A"]) = {"1"}
    /\ \E i \in 1..Len(hub.fopUpdates["A"].liftingOrderAthletes) :
          hub.fopUpdates["A"].liftingOrderAthletes[i] = [kind |-> "missing", athleteKey |-> "2"]

ServerCloses(cn) == conns[cn].status = "open" /\ conns'[cn].status = "closing"

\* C26: the server calls close() on a producer connection only in the
\* callback of a frame that failed authentication.
C26_ClosedOnlyAfterAuthFailure ==
    [][ \A cn \in Conns :
          ServerCloses(cn)
          => (IsFrame /\ last'.conn = cn /\ last'.outcome = "auth_rejected") ]_vars

\* C26 (amended): no frame but one that fails authentication makes the server
\* close the connection: a frame that is malformed, fails the version check,
\* is answered 428 or raises a processing error leaves it open.  The server
\* closes a connection after a frame answered 401 and when closeConnection()
\* is called for the active connection.
C26_NoFrameButAuthFailureCloses ==
    [][ /\ \A cn \in Conns :
              ServerCloses(cn)
              => \/ IsFrame /\ last'.conn = cn /\ last'.outcome = "auth_rejected"
                            /\ response'.status = 401
                 \/ last'.kind = "closeConnection" /\ activeConnection = cn
        /\ (IsFrame /\ last'.outcome # "auth_rejected")
              => conns'[last'.conn].status = "open" ]_vars

\* C26 witness: a frame was answered 428 and its connection is open.
C26_Witness ==
    /\ last.kind = "text"
    /\ response.status = 428
    /\ conns[last.conn].status = "open"

\* C27: when the producer connection closes while a waitForDatabase call is
\* pending, the call is settled (resolved or rejected) by the end of the
\* 'close' callback.
C27_CloseSettlesPendingWait ==
    [][ (IsClose /\ hub.databaseWait.status = "pending")
        => hub'.databaseWait.status \in {"resolved", "rejected"} ]_vars

\* path p is directory dir or lies under it
IsUnder(p, dir) == Len(p) >= Len(dir) /\ SubSeq(p, 1, Len(dir)) = dir

\* C28: every file the ZIP handlers have written lies under the directory of
\* its handler, <localFilesDir>/<subdir>; an entry named with a ".."
\* component or with an absolute path has produced no file.
C28_NoWriteOutsideSubdir ==
    \A w \in files : IsUnder(w.path, resolveLocalDir(w.subdir))

\* C29: every FOP for which the hub holds a snapshot from an update frame is
\* among the names getAvailableFOPs() returns, whether or not a database has
\* been loaded.
C29_UpdateFopsAreAvailable ==
    \A f \in DOMAIN hub.fopUpdates : f \in getAvailableFOPs(hub)

\* C30: a merged update, timer or decision frame makes the hub emit the
\* event named by EVENT_TYPES.UPDATE, EVENT_TYPES.TIMER or
\* EVENT_TYPES.DECISION, according to its type, for the platform of the frame.
C30_FrameEmitsItsEventType ==
    [][ \A f \in Fops :
          (IsFrame /\ Passed(last', {"update", "timer", "decision"}) /\ last'.fop = f
           /\ MergedInto(f))
          => Emitted(emitted', EVENT_TYPES[last'.type], f) ]_vars

\* C31..C40

\* C31: a call of requestPluginPreconditions(missing) with a non-empty list
\* while a producer connection is active and open sends
\* {status 428, reason plugin_preconditions, missing} on that connection;
\* without an active connection it sends nothing.
C31_PluginRequestIsSent ==
    [][ (last'.kind = "requestPluginPreconditions" /\ steps' # steps)
        => response' = IF /\ last'.payload # <<>>
                          /\ activeConnection # Null
                          /\ conns[activeConnection].status = "open"
                       THEN Resp(428, "plugin_preconditions", last'.payload)
                       ELSE NoResponse ]_vars

\* C32: the display mode of a snapshot is 'break' only when no decision is
\* visible and the snapshot is in a break (fopState BREAK or a started break
\* timer) that is not paused, not superseded by a starting athlete timer, and
\* the mode is not SESSION_DONE.
C32_BreakOnlyInOpenBreak ==
    \A f \in DOMAIN hub.fopUpdates :
        LET u == hub.fopUpdates[f]
        IN  displayModeOf(u) = "break"
            => /\ ~extractDecisionState(u).visible
               /\ Get(u, "fopState") = "BREAK" \/ BreakEventStarts(Get(u, "breakTimerEventType"))
               /\ ~BreakEventPauses(Get(u, "breakTimerEventType"))
               /\ Get(u, "athleteTimerEventType") # "StartTime"
               /\ Get(u, "mode") # "SESSION_DONE"

\* C39: debouncing touches only consecutive identical event types of a FOP: a
\* merged athlete-timer frame that follows a merged athlete-timer frame of
\* another event type for the same FOP has its broadcast delivered, whatever
\* the time between the two.
C39_AlternatingTimerEventsDelivered ==
    [][ ( /\ IsFrame
          /\ Passed(last, {"timer"}) /\ Passed(last', {"timer"})
          /\ last.fop = last'.fop
          /\ MergedInto(last'.fop)
          /\ Has(last.payload, "athleteTimerEventType")
          /\ Has(last'.payload, "athleteTimerEventType")
          /\ last.payload.athleteTimerEventType # last'.payload.athleteTimerEventType )
        => FopDelivery(delivered') # 0 ]_vars

\* C40: when a merged timer frame for a FOP is a break-timer StartTime and no
\* decision is visible in the resulting snapshot, the display mode of the
\* snapshot is 'break', whatever the earlier frames were.
C40_BreakStartShowsBreak ==
    [][ ( /\ IsFrame
          /\ Passed(last', {"timer"})
          /\ MergedInto(last'.fop)
          /\ Get(last'.payload, "breakTimerEventType") = "StartTime"
          /\ ~extractDecisionState(getFopUpdate(hub', last'.fop)).visible )
        => displayModeOf(getFopUpdate(hub', last'.fop)) = "break" ]_vars

\* C33: whenever handleFullCompetitionData has returned (success, duplicate,
\* invalid or unparseable data, error) the loading latch is released: between
\* callbacks isLoadingDatabase is false.
C33_LatchReleasedAfterEveryReturn == ~hub.isLoadingDatabase

\* C38: the hub refresh run when the producer connection closes clears the
\* session state: after the close callback no FOP is reported as done.
C38_RefreshClearsSessionDone ==
    [][ IsClose => \A f \in DOMAIN hub'.fopSessionStatus : ~isSessionDone(hub', f) ]_vars

\* C35: the close of a producer connection that a newer, still open
\* connection has replaced as the active one does not reset the hub state and
\* emits no 'waiting'.
C35_StaleCloseLeavesHubAlone ==
    [][ ( /\ IsClose
          /\ activeConnection # Null
          /\ activeConnection # last'.conn
          /\ conns[activeConnection].status = "open" )
        => /\ hub'.databaseState = hub.databaseState
           /\ hub'.fopUpdates = hub.fopUpdates
           /\ hub'.translationsReady = hub.translationsReady
           /\ ~EmittedAny(emitted', "waiting") ]_vars

\* C34: a database_zip frame that follows a database text frame without
\* athletes is ingested, with the same checksum or another and however soon
\* after it: afterwards the database snapshot holds the athletes of the ZIP.
C34_ZipAfterEmptyDatabaseIngested ==
    [][ \A b \in FollowingZipFrames :
          ( /\ BinaryFrame("c1", b)
            /\ last.kind = "text" /\ last.type = "database" /\ last.outcome = "routed"
            /\ last.conn = "c1"
            /\ last'.outcome = "routed" )
          => /\ ~hub'.databaseState.isNull
             /\ hub'.databaseState.athletes = b.zip.database.athletes ]_vars

\* C36: when the previous frame was answered 428 with translations_zip among
\* the missing preconditions and the producer then sends a well-formed
\* translations_zip, the translations are ready afterwards, also when the
\* checksum of the ZIP is the cached translations checksum.
C36_TranslationsZipAfter428MakesReady ==
    [][ \A b \in SpecBinaryFrames :
          ( /\ b.type = "translations_zip" /\ b.zip.zipOk /\ b.zip.hasEntry
            /\ BinaryFrame("c1", b)
            /\ last'.outcome = "routed"
            /\ response.status = 428
            /\ \E i \in 1..Len(response.missing) : response.missing[i] = "translations_zip" )
          => hub'.translationsReady ]_vars

\* what the hub holds for FOP f: snapshot, session status, version counter
FopSnapshotOf(h, f) == getFopUpdate(h, f)

FopStatusOf(h, f) ==
    IF f \in DOMAIN h.fopSessionStatus THEN <<h.fopSessionStatus[f]>> ELSE <<>>

====
